---- MODULE Spec2Model ----
(***************************************************************************)
(* Model of the AntenbOro simulation core: SimulationEngine.updateTick,    *)
(* Colony.update (roster pass, queen egg-laying, brood pipeline),          *)
(* Ant.update and World.update.                                            *)
(*                                                                         *)
(* One call of updateTick is a sequence of steps ordered by pc, in the     *)
(* order of the statements of the source; the program is single-threaded,  *)
(* so no other operation runs between the steps of one tick.               *)
(*                                                                         *)
(* Ant positions and angles are floats driven by Math.random; they are     *)
(* not tracked.  Every geometric test of the source (enemy within detect   *)
(* range, within bite range, food at feet, inside the nest radius) is a    *)
(* nondeterministic choice over the outcomes the test can have.            *)
(*                                                                         *)
(* Three parts of the program are also driven on their own, with the       *)
(* engine at rest: PheromoneGrid.deposit and update (SpecPheromone, and    *)
(* SpecDecay for the decay with no deposit), Colony.update (SpecColony)    *)
(* and Ant._move with a tracked position and angle (SpecMove).             *)
(*                                                                         *)
(* The CONFIG tunables are instantiated with small values that keep the    *)
(* orderings of the shipped configuration (config.js):                     *)
(*   EGG_INCUBATION_TICKS < LARVA_GROWTH_TICKS,                            *)
(*   PUPA_GROWTH_TICKS <= LARVA_GROWTH_TICKS,                              *)
(*   QUEEN_EGG_LAYING_INTERVAL <= LARVA_GROWTH_TICKS - 2,                  *)
(*   QUEEN_MIN_FOOD_TO_LAY < starting food, WORKER_DAMAGE < SOLDIER_DAMAGE.*)
(***************************************************************************)
EXTENDS Integers, Sequences, FiniteSets, TLC

\* ---- CONFIG (config.js), scaled -----------------------------------------
INITIAL_WORKERS == 1
INITIAL_SOLDIERS == 0
MAX_ANTS_PER_COLONY == 3
FOOD_CLUSTERS == 1
FOOD_PER_CLUSTER == 2
WORKER_DAMAGE == 1
SOLDIER_DAMAGE == 2
WORKER_HEALTH == 1
SOLDIER_HEALTH == 2
QUEEN_HEALTH == 2
BITE_COOLDOWN == 2
EGG_INCUBATION_TICKS == 2
LARVA_GROWTH_TICKS == 4
PUPA_GROWTH_TICKS == 3
QUEEN_EGG_LAYING_INTERVAL == 2
QUEEN_MIN_FOOD_TO_LAY == 96
\* CONFIG.FOOD_DEPOT_CAPACITY ("max food colony can store"), scaled: just
\* above the starting food.
FOOD_DEPOT_CAPACITY == 101
PHEROMONE_STRENGTH_HOME == 1
\* CONFIG.PHEROMONE_DECAY_RATE, in thousandths.
PHEROMONE_DECAY_RATE == 500
\* Number of updateTick calls that run to the end (Spec).
MaxTick == 3
\* Number of Colony.update calls of the colony under test (SpecColony).
MaxUpdates == 6
\* Number of bites the colony under test takes from the opponent (SpecColony).
MaxEnemyBites == 1
\* CONFIG.PLAYER_BITE_DAMAGE ("slightly higher than soldier"), scaled.
PLAYER_BITE_DAMAGE == 3
\* Number of input events of the player (bite, pick up) that are handled.
MaxHeroActs == 1
\* Numbers of direct deposit and update calls on the grid (SpecPheromone).
MaxDeposits == 2
MaxGridUpdates == 2
\* Time units per second of the driving loop's clock.
TimeScale == 600

\* ---- constants of the code ----------------------------------------------
\* CONFIG.SPEED_LEVELS = [1, 2, 4, 8]
SPEED_LEVELS == <<1, 2, 4, 8>>
\* CONFIG.FOOD_CARRY_CAPACITY: 1
FOOD_CARRY_CAPACITY == 1
\* Colony constructor: this.foodAmount = 100
StartingFood == 100
\* Colony._layEgg: this.foodAmount -= 5
EggCost == 5
\* PlayerController constructor: new Ant(99999, 'WORKER', 0, ...)
HeroId == 99999
\* CONFIG.PHEROMONE_CHANNELS: 0/1 = player/enemy trail, 2/3 = alarm
PHEROMONE_CHANNELS == 4
\* CONFIG.ALARM_DECAY_RATE, in thousandths.
ALARM_DECAY_RATE == 995
\* PheromoneGrid.deposit: Math.min(..., 1000)
PHEROMONE_MAX == 1000
\* CONFIG.TICKS_PER_SECOND: 30
TICKS_PER_SECOND == 30
\* main.js: Math.min(deltaMs / 1000, 0.05), the clamp in milliseconds
FrameClampMs == 50
\* CONFIG.WORLD_WIDTH, CONFIG.WORLD_HEIGHT (grid cells), scaled.
WORLD_WIDTH == 4
WORLD_HEIGHT == 3
\* Positions are fixed-point numbers in units of 1/PosScale of a cell.
PosScale == 4
\* Ant speed in position units per tick (0.15 cells in the source).
ANT_SPEED == 3
\* Number of grid cells an ant of the engine can stand on while it lays
\* its home trail (the cells <<0, 0>>, <<1, 0>>, ...).
WORLD_CELLS == 1

VARIABLES
  pc,            \* position inside updateTick ("idle" between calls)
  cur,           \* id of the colony whose update() is running
  idx,           \* loop index i of the roster pass of Colony.update (1-based)
  tick, speedLevel, isPaused, gameOver, victoryState,   \* SimulationEngine
  playerAnt,     \* SimulationEngine.playerAnt (id of the hero ant, 0 = null)
  foodPatches,   \* World.foodPatches: sequence of amounts
  grids,         \* PheromoneGrid.grids: channel -> cell -> value in 1/1000
  colonies,      \* playerColony (0) and enemyColony (1)
  updates,       \* history: number of completed update() calls per colony
  enemyBites,    \* history: number of EnemyBite steps taken
  heroActs,      \* history: number of input events of the player handled
  calls,         \* history: numbers of direct deposit / update calls on the grid
  base,          \* history: the grid as the last PheromoneGrid.update left
                 \* it or, where only updates run, as they found it
  summed,        \* history: per cell, the strengths deposited since then
  mover,         \* position and angle of the ant driven through Ant._move;
                 \* step is a history field: the kind of the last operation
  loop           \* the driving loop of main.js: accumulator, isFPSMode,
                 \* its position (at); history: the accumulator at the
                 \* start of the while loop, updateTick calls of the frame

\* The variables that only the directly driven calls write.
harness == <<calls, base, summed, mover, loop>>

vars == <<pc, cur, idx, tick, speedLevel, isPaused, gameOver, victoryState,
          playerAnt, foodPatches, grids, colonies, updates, enemyBites,
          heroActs, harness>>

engine == <<tick, speedLevel, isPaused, gameOver, victoryState, playerAnt>>

\* ---- helpers ------------------------------------------------------------
Min(a, b) == IF a < b THEN a ELSE b
Max(a, b) == IF a > b THEN a ELSE b
Reverse(s) == [i \in 1..Len(s) |-> s[Len(s) + 1 - i]]
\* Variant of the splice that removes nothing.
SpliceNothing(s, i) == s
\* Array.prototype.splice(i, 1)
Splice(s, i) == SubSeq(s, 1, i - 1) \o SubSeq(s, i + 1, Len(s))

\* ---- PheromoneGrid -------------------------------------------------------
\* Values are fixed-point numbers in units of 1/1000.
Channels == 0..(PHEROMONE_CHANNELS - 1)
\* PheromoneGrid._createEmptyGrid: grid[x][y] = 0 for every cell.
Cells == (0..(WORLD_WIDTH - 1)) \X (0..(WORLD_HEIGHT - 1))
EmptyGrids == [ch \in Channels |-> [cell \in Cells |-> 0]]
\* The cells an ant of the engine lays its home trail on.
TrailCells == {<<i, 0>> : i \in 0..(WORLD_CELLS - 1)}
\* No cell: the ant made no deposit.
NoCell == <<>>

\* Variant of the floor that rounds toward zero.
Truncate(x) == IF x < 0 THEN -((-x) \div PosScale) ELSE x \div PosScale
\* Math.floor of a position.
Floor(x) == x \div PosScale

\* The negation of the out-of-bounds test of deposit and read.
InBounds(ix, iy) ==
  ~(ix < 0 \/ ix >= WORLD_WIDTH \/ iy < 0 \/ iy >= WORLD_HEIGHT)

\* Variant of the deposit that does not clamp.
DepositUnclamped(g, ch, cell, strength) ==
  [g EXCEPT ![ch][cell] = @ + strength * 1000]

\* Variant of the deposit that clamps the old value, not the sum.
DepositClampFirst(g, ch, cell, strength) ==
  [g EXCEPT ![ch][cell] = Min(@, PHEROMONE_MAX * 1000) + strength * 1000]

\* PheromoneGrid.deposit at an in-bounds cell: add, clamp to 1000.
Deposit(g, ch, cell, strength) ==
  [g EXCEPT ![ch][cell] = Min(@ + strength * 1000, PHEROMONE_MAX * 1000)]

\* PheromoneGrid.deposit(x, y, colonyId, strength): silent return when the
\* floored position is outside the grid.
DepositAt(g, x, y, colonyId, strength) ==
  IF InBounds(Floor(x), Floor(y))
  THEN Deposit(g, colonyId, <<Floor(x), Floor(y)>>, strength)
  ELSE g

\* PheromoneGrid.read(x, y, colonyId): 0 outside the grid.
Read(g, x, y, colonyId) ==
  IF InBounds(Floor(x), Floor(y)) THEN g[colonyId][<<Floor(x), Floor(y)>>] ELSE 0

\* Variant of the decay that adds the drain instead of taking it off.
DecayCellGaining(val, ch) ==
  IF val <= 0 THEN val
  ELSE LET rate == IF ch >= 2 THEN ALARM_DECAY_RATE ELSE PHEROMONE_DECAY_RATE
           v == (val * rate) \div 1000 + 20
       IN IF v < 500 THEN 0 ELSE v

\* Variant of the decay that does not set a value below 0.5 to 0.
DecayCellNoSnap(val, ch) ==
  IF val <= 0 THEN val
  ELSE LET rate == IF ch >= 2 THEN ALARM_DECAY_RATE ELSE PHEROMONE_DECAY_RATE
       IN (val * rate) \div 1000 - 20

\* PheromoneGrid.update, one cell: val * rate - 0.02, snapped to 0 below 0.5.
\* Channels 2 and 3 are alarm channels and use the alarm rate.
DecayCell(val, ch) ==
  IF val <= 0 THEN val
  ELSE LET rate == IF ch >= 2 THEN ALARM_DECAY_RATE ELSE PHEROMONE_DECAY_RATE
           v == (val * rate) \div 1000 - 20
       IN IF v < 500 THEN 0 ELSE v

\* PheromoneGrid.update: every cell of every channel.
Decay(g) == [ch \in Channels |-> [cell \in Cells |-> DecayCell(g[ch][cell], ch)]]

\* ---- Ant ----------------------------------------------------------------
\* Ant constructor.  lastBite and lastUpdate are history fields: the
\* numbers of the update() calls of the ant's colony in which the ant last
\* bit and in which its own update last ran, 0 if never.
NewAnt(id, type) ==
  [ id |-> id, type |-> type,
    health |-> IF type = "QUEEN" THEN QUEEN_HEALTH
               ELSE IF type = "SOLDIER" THEN SOLDIER_HEALTH ELSE WORKER_HEALTH,
    isDead |-> FALSE, state |-> "WANDERING", carryingFood |-> 0,
    biteCooldown |-> 0, isPlayerControlled |-> FALSE, entsKilled |-> 0,
    lastBite |-> 0, lastUpdate |-> 0 ]

\* ---- Colony -------------------------------------------------------------
\* Colony._initializeStartingAnts: queen, then workers, then soldiers.
InitialAnts ==
  <<NewAnt(0, "QUEEN")>>
  \o [i \in 1..INITIAL_WORKERS |-> NewAnt(i, "WORKER")]
  \o [i \in 1..INITIAL_SOLDIERS |-> NewAnt(INITIAL_WORKERS + i, "SOLDIER")]

\* Colony constructor.  lastLay and prevLay are history fields: the numbers
\* of the update() calls (1-based) in which the last egg and the egg before
\* it were enqueued, 0 if none.
NewColony(id) ==
  [ id |-> id, queen |-> NewAnt(0, "QUEEN"), ants |-> InitialAnts,
    foodAmount |-> StartingFood,
    eggQueue |-> <<>>, larvaQueue |-> <<>>, pupaQueue |-> <<>>,
    eggLayingTimer |-> 0,
    nextAntId |-> 1 + INITIAL_WORKERS + INITIAL_SOLDIERS,
    lastLay |-> 0, prevLay |-> 0 ]

\* The queen field is a reference to the Ant object that is also in the
\* roster: writing roster entry j writes the queen when j is the queen.
SetAnt(col, j, a) ==
  [col EXCEPT !.ants[j] = a, !.queen = IF a.type = "QUEEN" THEN a ELSE @]

\* Colony.getStats().totalAnts: this.ants.length
TotalAnts(col) == Len(col.ants)

\* ---- Ant.update ---------------------------------------------------------
\* What one Ant.update call does besides rewriting the ant itself:
\*   bite    roster index of the enemy that is bitten (0 = no bite)
\*   pick    index of the food patch one load is taken from (0 = none)
\*   credit  amount added to the own colony's food ledger
\*   cell    pheromone cell a home-trail deposit goes to (NoCell = none)
\*   enemy   roster index of the enemy _findNearbyEnemy returned (0 = null)
\*   far     that enemy is farther away than the bite range
\*   turn    the facing angle was written
\*   move    _move was called: the position was written
Effect(a, bite, pick, credit, cell) ==
  [ant |-> a, bite |-> bite, pick |-> pick, credit |-> credit, cell |-> cell,
   enemy |-> 0, far |-> FALSE, turn |-> FALSE, move |-> FALSE]

\* Variant of the attack that does not look at the cooldown.
AttackEnemyHasty(a, j, inRange) ==
  LET f == [a EXCEPT !.state = "FIGHTING"] IN
  IF inRange
  THEN Effect([f EXCEPT !.biteCooldown = BITE_COOLDOWN], j, 0, 0, NoCell)
  ELSE Effect(f, 0, 0, 0, NoCell)

\* Variant of the attack that leaves the ant in the state it was in.
AttackEnemyKeepsState(a, j, inRange) ==
  IF inRange /\ a.biteCooldown <= 0
  THEN Effect([a EXCEPT !.biteCooldown = BITE_COOLDOWN], j, 0, 0, NoCell)
  ELSE Effect(a, 0, 0, 0, NoCell)

\* Ant._attackEnemy(enemy) with enemy = oth.ants[j]; inRange: dist <= BITE_RANGE.
AttackEnemy(a, j, inRange) ==
  LET f == [a EXCEPT !.state = "FIGHTING"] IN
  IF inRange /\ f.biteCooldown <= 0
  THEN Effect([f EXCEPT !.biteCooldown = BITE_COOLDOWN], j, 0, 0, NoCell)
  ELSE Effect(f, 0, 0, 0, NoCell)

\* Variant of the pickup that takes a full load from any patch, empty or not.
ForageFromEmpty(a, patches, g, ch) ==
  { Effect([a EXCEPT !.carryingFood = FOOD_CARRY_CAPACITY,
                     !.state = "CARRYING"], 0, p, 0, NoCell)
      : p \in 1..Len(patches) }
  \cup { Effect([a EXCEPT !.state = "WANDERING"], 0, 0, 0, NoCell) }

\* Ant._forage: pick up from a patch at the feet, else steer or wander.
Forage(a, patches, g, ch) ==
  { Effect([a EXCEPT !.carryingFood = Min(FOOD_CARRY_CAPACITY, patches[p]),
                     !.state = "CARRYING"], 0, p, 0, NoCell)
      : p \in {q \in 1..Len(patches) : patches[q] > 0} }
  \cup { Effect([a EXCEPT !.state = "WANDERING"], 0, 0, 0, NoCell) }
  \cup { Effect([a EXCEPT !.state = "FOLLOWING"], 0, 0, 0, NoCell)
           : cell \in {k \in TrailCells : g[ch][k] # 0} }

\* Variant of the return that credits the load and keeps carrying it.
ReturnHomeKeepsLoad(a) ==
  { Effect([a EXCEPT !.state = "WANDERING"], 0, 0, a.carryingFood, cell)
      : cell \in TrailCells }
  \cup { Effect(a, 0, 0, 0, cell) : cell \in TrailCells }

\* Ant._returnHome: trail deposit, then food credit when inside the nest.
ReturnHome(a) ==
  { Effect([a EXCEPT !.carryingFood = 0, !.state = "WANDERING"],
           0, 0, a.carryingFood, cell) : cell \in TrailCells }
  \cup { Effect(a, 0, 0, 0, cell) : cell \in TrailCells }

\* Variants of the early return that leave out the queen, the hero.
SkipsAIHeroOnly(a) == a.isPlayerControlled
SkipsAIQueenOnly(a) == a.type = "QUEEN"

\* The two early returns of Ant.update before the AI: the player-controlled
\* ant and the queen.
SkipsAI(a) == a.isPlayerControlled \/ a.type = "QUEEN"

\* Variant of the revert that forgets the load the ant carries.
LostTargetWanders(a) ==
  IF a.state = "FIGHTING" THEN [a EXCEPT !.state = "WANDERING"] ELSE a

\* Variant of the revert that lets the ant stay in FIGHTING.
LostTargetStays(a) == a

\* "If we were fighting but lost target, return to appropriate state".
LostTarget(a) ==
  IF a.state = "FIGHTING"
  THEN [a EXCEPT !.state = IF a.carryingFood > 0
                           THEN "CARRYING" ELSE "WANDERING"]
  ELSE a

\* The state switch of Ant.update on the ant a, followed by _move.
Dispatch(a, patches, g, ch) ==
  { [e EXCEPT !.turn = TRUE, !.move = TRUE] : e \in
      CASE a.state \in {"WANDERING", "FOLLOWING"} -> Forage(a, patches, g, ch)
        [] a.state = "CARRYING" -> ReturnHome(a)
        [] a.state = "GUARDING" -> { Effect(a, 0, 0, 0, NoCell) }
        [] OTHER -> {} }
  \cup
  { [e EXCEPT !.move = TRUE] : e \in
      IF a.state \in {"WANDERING", "FOLLOWING", "CARRYING", "GUARDING"}
      THEN {} ELSE { Effect(a, 0, 0, 0, NoCell) } }

\* Variant of the two returns that lets every ant through.
FallenUnnoticed(a) == FALSE

\* The two returns at the head of Ant.update: `if (this.isDead) return;`
\* and `if (this.health <= 0) { this.isDead = true; return; }`.  After
\* either the ant is flagged dead and has done nothing else.
Fallen(a) == a.isDead \/ a.health <= 0

\* Variant of the search that does not skip the dead.
FindNearbyEnemyAmongAll(oth) == 1..Len(oth.ants)

\* Ant._findNearbyEnemy(otherColony): the roster indices of the ants the
\* search can return.  It skips the ants flagged dead; of the others any
\* one can be the closest within the detection range.
FindNearbyEnemy(oth) == {k \in 1..Len(oth.ants) : ~oth.ants[k].isDead}

\* Ant.update(world, colony, otherColony): the set of possible results.
\* ch is the ant's pheromoneChannel (its colony id).
AntUpdate(a, oth, patches, g, ch) ==
  IF Fallen(a)
  THEN { Effect([a EXCEPT !.isDead = TRUE], 0, 0, 0, NoCell) }
  ELSE
    LET a1 == [a EXCEPT !.biteCooldown = IF @ > 0 THEN @ - 1 ELSE @] IN
    IF SkipsAI(a1)
    THEN { Effect(a1, 0, 0, 0, NoCell) }
    ELSE
      \* _findNearbyEnemy returned a living enemy
      { [AttackEnemy(a1, j, inRange) EXCEPT !.enemy = j, !.far = ~inRange,
                                            !.turn = TRUE]
          : j \in FindNearbyEnemy(oth), inRange \in BOOLEAN }
      \cup
      \* _findNearbyEnemy returned null
      Dispatch(LostTarget(a1), patches, g, ch)

\* Damage of a bite by caste (Ant._attackEnemy).
Damage(a) == IF a.type = "SOLDIER" THEN SOLDIER_DAMAGE ELSE WORKER_DAMAGE

\* Variant of the bite that flags the victim dead whatever its health.
BittenToDeath(e, dmg) == [e EXCEPT !.health = @ - dmg, !.isDead = TRUE]

\* Variant of the bite that leaves the dead flag to the victim's update.
BittenUnflagged(e, dmg) == [e EXCEPT !.health = @ - dmg]

\* The bitten enemy: health lowered, flagged dead at health <= 0.
Bitten(e, dmg) ==
  LET h == e.health - dmg IN
  [e EXCEPT !.health = h, !.isDead = IF h <= 0 THEN TRUE ELSE @]

\* Variant of the kill counter that goes up with every bite.
KillCountedPerBite(a, victim) == [a EXCEPT !.entsKilled = @ + 1]

\* The biter a after its bite left the enemy as victim:
\* if (enemy.health <= 0) { enemy.isDead = true; this.entsKilled++; }
KillCounted(a, victim) ==
  IF victim.health <= 0 THEN [a EXCEPT !.entsKilled = @ + 1] ELSE a

\* ---- SimulationEngine ---------------------------------------------------
\* The call of updateTick from the driving loop.
UpdateTick ==
  /\ pc = "idle"
  /\ tick < MaxTick \/ gameOver \/ isPaused
  /\ pc' = "updateTick"
  /\ UNCHANGED <<cur, idx, engine, foodPatches, grids, colonies, updates,
                 enemyBites, heroActs, harness>>

\* Variant of the guard that does not test the pause.
SkippedWithoutPause == gameOver

\* if (this.gameOver || this.isPaused) return;
Skipped == gameOver \/ isPaused

TickGuard ==
  /\ pc = "updateTick"
  /\ pc' = IF Skipped THEN "idle" ELSE "world"
  /\ UNCHANGED <<cur, idx, engine, foodPatches, grids, colonies, updates,
                 enemyBites, heroActs, harness>>

\* Amounts a depleted patch can respawn with:
\* floor(FOOD_PER_CLUSTER * (0.3 + r * 0.7)) for r in [0, 1).
RespawnAmounts == ((3 * FOOD_PER_CLUSTER) \div 10)..(FOOD_PER_CLUSTER - 1)

\* Variant of the entry that starts the roster pass at the front.
EnterColonyAtFront(c) ==
  /\ cur' = c
  /\ idx' = 1
  /\ pc' = IF Len(colonies[c].ants) = 0 THEN "lay" ELSE "ants"

\* Entry of Colony.update for colony c: the roster pass starts at the end.
EnterColony(c) ==
  /\ cur' = c
  /\ idx' = Len(colonies[c].ants)
  /\ pc' = IF Len(colonies[c].ants) = 0 THEN "lay" ELSE "ants"

\* this.world.update(): pheromone decay, then respawn of depleted patches.
WorldUpdate ==
  /\ pc = "world"
  /\ grids' = Decay(grids)
  /\ \E np \in [1..Len(foodPatches) -> 0..FOOD_PER_CLUSTER] :
       /\ \A i \in 1..Len(foodPatches) :
            \/ np[i] = foodPatches[i]
            \/ foodPatches[i] <= 0 /\ np[i] \in RespawnAmounts
       /\ foodPatches' = np
  /\ EnterColony(0)
  /\ UNCHANGED <<engine, colonies, updates, enemyBites, heroActs, harness>>

\* ---- Colony.update ------------------------------------------------------
\* Variant of the loop step that goes on two places after a removal.
PrevIndexSkipping(i, removed) == IF removed THEN i - 2 ELSE i - 1

\* i-- of `for (let i = this.ants.length - 1; i >= 0; i--)`, whether or
\* not the ant at i was removed.
PrevIndex(i, removed) == i - 1

\* One iteration of the roster pass: ant.update(world, this, otherColony),
\* then splice the ant out if it is dead.
AntStep ==
  /\ pc = "ants"
  /\ LET col == colonies[cur]
         oth == colonies[1 - cur]
         a   == col.ants[idx]
     IN \E e \in AntUpdate(a, oth, foodPatches, grids, cur) :
          LET upd  == [e.ant EXCEPT !.lastUpdate = updates[cur] + 1]
              col1 == SetAnt(col, idx,
                            IF e.bite = 0 THEN upd
                            ELSE KillCounted(
                                   [upd EXCEPT !.lastBite = updates[cur] + 1],
                                   Bitten(oth.ants[e.bite], Damage(a))))
              next == PrevIndex(idx, e.ant.isDead)
              col2 == [col1 EXCEPT !.foodAmount = @ + e.credit]
              col3 == IF e.ant.isDead
                      THEN [col2 EXCEPT !.ants = Splice(@, idx)]
                      ELSE col2
              oth1 == IF e.bite = 0 THEN oth
                      ELSE SetAnt(oth, e.bite, Bitten(oth.ants[e.bite], Damage(a)))
          IN /\ colonies' = [colonies EXCEPT ![cur] = col3, ![1 - cur] = oth1]
             /\ foodPatches' = IF e.pick = 0 THEN foodPatches
                               ELSE [foodPatches EXCEPT ![e.pick] =
                                       @ - e.ant.carryingFood]
             /\ grids' = IF e.cell = NoCell THEN grids
                         ELSE Deposit(grids, cur, e.cell, PHEROMONE_STRENGTH_HOME)
             /\ idx' = next
             /\ pc' = IF next >= 1 THEN "ants" ELSE "lay"
  /\ UNCHANGED <<cur, engine, updates, enemyBites, heroActs, harness>>

\* Variant of the gate that wants the timer strictly over the interval.
LayGateLate(col, timer) ==
  /\ timer > QUEEN_EGG_LAYING_INTERVAL
  /\ col.foodAmount >= QUEEN_MIN_FOOD_TO_LAY
  /\ Len(col.ants) < MAX_ANTS_PER_COLONY

\* Variant of the gate that does not look at the food ledger.
LayGateAnyFood(col, timer) ==
  /\ timer >= QUEEN_EGG_LAYING_INTERVAL
  /\ Len(col.ants) < MAX_ANTS_PER_COLONY

\* The three-way gate of the queen's egg-laying, on the incremented timer.
LayGate(col, timer) ==
  /\ timer >= QUEEN_EGG_LAYING_INTERVAL
  /\ col.foodAmount >= QUEEN_MIN_FOOD_TO_LAY
  /\ Len(col.ants) < MAX_ANTS_PER_COLONY

\* Colony._layEgg with the caste drawn: push {age: 0, type}, pay the cost.
\* born and hops are history fields: born is the number of the update()
\* call that enqueued the egg, hops counts the queue changes of the item
\* within the running update() call.
LayEgg(col, type, n) ==
  [col EXCEPT !.eggQueue = Append(@, [age |-> 0, type |-> type,
                                      born |-> n, hops |-> 0]),
              !.foodAmount = @ - EggCost]

\* Variant of the reset that leaves the timer as it is.
ResetTimerForgotten(col) == col

\* this.eggLayingTimer = 0, after _layEgg.
ResetTimer(col) == [col EXCEPT !.eggLayingTimer = 0]

ResetHops(q) == [i \in 1..Len(q) |-> [q[i] EXCEPT !.hops = 0]]

\* Queen egg-laying logic of Colony.update.
QueenStep ==
  /\ pc = "lay"
  /\ LET c0  == colonies[cur]
         col == [c0 EXCEPT !.eggQueue = ResetHops(@),
                           !.larvaQueue = ResetHops(@),
                           !.pupaQueue = ResetHops(@)]
     IN IF col.queen.isDead
        THEN colonies' = [colonies EXCEPT ![cur] = col]
        ELSE LET timer == col.eggLayingTimer + 1 IN
             IF LayGate(col, timer)
             THEN \E type \in {"WORKER", "SOLDIER"} :
                    colonies' = [colonies EXCEPT ![cur] =
                       [ResetTimer(LayEgg([col EXCEPT !.eggLayingTimer = timer],
                                          type, updates[cur] + 1))
                          EXCEPT !.lastLay = updates[cur] + 1,
                                 !.prevLay = col.lastLay]]
             ELSE colonies' = [colonies EXCEPT ![cur] =
                       [col EXCEPT !.eggLayingTimer = timer]]
  /\ pc' = "eggs"
  /\ UNCHANGED <<cur, idx, engine, foodPatches, grids, updates,
                 enemyBites, heroActs, harness>>

\* A brood loop `for (i = length - 1; i >= 0; i--)`: every item ages by
\* one; the items at or over the threshold leave, last index first.
Aged(q) == [i \in 1..Len(q) |-> [q[i] EXCEPT !.age = @ + 1]]
\* Variant of the promotion test that fires one update early.
PromotesEarly(b, threshold) == b.age >= threshold - 1
\* if (queue[i].age >= threshold), on the incremented age.
Promotes(b, threshold) == b.age >= threshold
Staying(q, threshold) == SelectSeq(Aged(q), LAMBDA b : ~Promotes(b, threshold))
Leaving(q, threshold) ==
  LET out == Reverse(SelectSeq(Aged(q), LAMBDA b : Promotes(b, threshold)))
  IN [i \in 1..Len(out) |-> [out[i] EXCEPT !.hops = @ + 1]]

\* Egg -> Larva progression.
EggStep ==
  /\ pc = "eggs"
  /\ colonies' = [colonies EXCEPT ![cur] =
       [@ EXCEPT !.eggQueue = Staying(colonies[cur].eggQueue, EGG_INCUBATION_TICKS),
                 !.larvaQueue = @ \o Leaving(colonies[cur].eggQueue,
                                             EGG_INCUBATION_TICKS)]]
  /\ pc' = "larvae"
  /\ UNCHANGED <<cur, idx, engine, foodPatches, grids, updates,
                 enemyBites, heroActs, harness>>

\* Larva -> Pupa progression.
LarvaStep ==
  /\ pc = "larvae"
  /\ colonies' = [colonies EXCEPT ![cur] =
       [@ EXCEPT !.larvaQueue = Staying(colonies[cur].larvaQueue, LARVA_GROWTH_TICKS),
                 !.pupaQueue = @ \o Leaving(colonies[cur].larvaQueue,
                                            LARVA_GROWTH_TICKS)]]
  /\ pc' = "pupae"
  /\ UNCHANGED <<cur, idx, engine, foodPatches, grids, updates,
                 enemyBites, heroActs, harness>>

\* Pupa -> Adult progression: a new Ant per leaving pupa, pushed on the
\* roster with the next ant id.
Pupae(col) ==
  LET out == Leaving(col.pupaQueue, PUPA_GROWTH_TICKS) IN
  [col EXCEPT
     !.pupaQueue = Staying(col.pupaQueue, PUPA_GROWTH_TICKS),
     !.ants = @ \o [k \in 1..Len(out) |->
                      NewAnt(col.nextAntId + k - 1, out[k].type)],
     !.nextAntId = @ + Len(out)]

\* The last loop of Colony.update, returning into updateTick: after the
\* player colony the enemy colony is updated, after it the queens are checked.
PupaStep ==
  /\ pc = "pupae"
  /\ colonies' = [colonies EXCEPT ![cur] = Pupae(colonies[cur])]
  /\ updates' = [updates EXCEPT ![cur] = @ + 1]
  /\ UNCHANGED <<enemyBites, heroActs, harness>>
  /\ IF cur = 0
     THEN /\ cur' = 1
          /\ idx' = Len(colonies[1].ants)
          /\ pc' = IF Len(colonies[1].ants) = 0 THEN "lay" ELSE "ants"
     ELSE /\ pc' = "check"
          /\ UNCHANGED <<cur, idx>>
  /\ UNCHANGED <<engine, foodPatches, grids>>

\* Variant of the queen check whose second test lacks `!this.gameOver`.
QueenCheckUnguarded ==
  /\ pc = "check"
  /\ LET lost == colonies[0].queen.isDead /\ ~gameOver
         won  == colonies[1].queen.isDead
     IN /\ gameOver' = (gameOver \/ lost \/ won)
        /\ victoryState' = IF won THEN "WON" ELSE IF lost THEN "LOST"
                            ELSE victoryState
  /\ pc' = "inc"
  /\ UNCHANGED <<cur, idx, tick, speedLevel, isPaused, playerAnt,
                 foodPatches, grids, colonies, updates, enemyBites, heroActs, harness>>

\* Variant of the queen check that looks at the enemy queen first.
QueenCheckEnemyFirst ==
  /\ pc = "check"
  /\ LET won  == colonies[1].queen.isDead /\ ~gameOver
         go1  == gameOver \/ won
         vs1  == IF won THEN "WON" ELSE victoryState
         lost == colonies[0].queen.isDead /\ ~go1
     IN /\ gameOver' = (go1 \/ lost)
        /\ victoryState' = IF lost THEN "LOST" ELSE vs1
  /\ pc' = "inc"
  /\ UNCHANGED <<cur, idx, tick, speedLevel, isPaused, playerAnt,
                 foodPatches, grids, colonies, updates, enemyBites,
                 heroActs, harness>>

\* Check win/lose conditions: player queen first, then enemy queen.
QueenCheck ==
  /\ pc = "check"
  /\ LET lost == colonies[0].queen.isDead /\ ~gameOver
         go1  == gameOver \/ lost
         vs1  == IF lost THEN "LOST" ELSE victoryState
         won  == colonies[1].queen.isDead /\ ~go1
     IN /\ gameOver' = (go1 \/ won)
        /\ victoryState' = IF won THEN "WON" ELSE vs1
  /\ pc' = "inc"
  /\ UNCHANGED <<cur, idx, tick, speedLevel, isPaused, playerAnt,
                 foodPatches, grids, colonies, updates, enemyBites, heroActs, harness>>

\* Variant of the increment that is skipped once the game is over.
TickIncUnlessOver ==
  /\ pc = "inc"
  /\ tick' = IF gameOver THEN tick ELSE tick + 1
  /\ pc' = "idle"
  /\ UNCHANGED <<cur, idx, speedLevel, isPaused, gameOver, victoryState,
                 playerAnt, foodPatches, grids, colonies, updates, enemyBites, heroActs, harness>>

\* this.tick++
TickInc ==
  /\ pc = "inc"
  /\ tick' = tick + 1
  /\ pc' = "idle"
  /\ UNCHANGED <<cur, idx, speedLevel, isPaused, gameOver, victoryState,
                 playerAnt, foodPatches, grids, colonies, updates, enemyBites, heroActs, harness>>

\* SimulationEngine.togglePause
TogglePause ==
  /\ pc = "idle"
  /\ isPaused' = ~isPaused
  /\ UNCHANGED <<pc, cur, idx, tick, speedLevel, gameOver, victoryState,
                 playerAnt, foodPatches, grids, colonies, updates, enemyBites, heroActs, harness>>

\* SimulationEngine.nextSpeed
NextSpeed ==
  /\ pc = "idle"
  /\ speedLevel' = (speedLevel + 1) % Len(SPEED_LEVELS)
  /\ UNCHANGED <<pc, cur, idx, tick, isPaused, gameOver, victoryState,
                 playerAnt, foodPatches, grids, colonies, updates, enemyBites, heroActs, harness>>

\* SimulationEngine.setSpeedLevel(level)
SetSpeedLevel ==
  /\ pc = "idle"
  /\ \E level \in -1..(Len(SPEED_LEVELS) + 1) :
       speedLevel' = Max(0, Min(Len(SPEED_LEVELS) - 1, level))
  /\ UNCHANGED <<pc, cur, idx, tick, isPaused, gameOver, victoryState,
                 playerAnt, foodPatches, grids, colonies, updates, enemyBites, heroActs, harness>>

\* PlayerController constructor: the hero ant is created, flagged as
\* player-controlled, pushed on the player colony's roster and registered
\* with SimulationEngine.setPlayerAnt.  main.js runs it once, before the
\* first frame.
NewPlayerController ==
  /\ pc = "idle"
  /\ tick = 0
  /\ updates[0] = 0
  /\ playerAnt = 0
  /\ colonies' = [colonies EXCEPT ![0].ants =
       Append(@, [NewAnt(HeroId, "WORKER") EXCEPT !.isPlayerControlled = TRUE])]
  /\ playerAnt' = HeroId
  /\ UNCHANGED <<pc, cur, idx, tick, speedLevel, isPaused, gameOver,
                 victoryState, foodPatches, grids, updates, enemyBites, heroActs, harness>>

\* The roster indices of the hero ant: none once it was spliced out.
HeroIndex == {j \in 1..Len(colonies[0].ants) :
                colonies[0].ants[j].isPlayerControlled}

\* PlayerController._bite, from the mousedown handler: the nearest living
\* enemy within bite range, if any, loses PLAYER_BITE_DAMAGE health.  The
\* controller's own cooldown runs per frame and is not tracked.
HeroBite ==
  /\ pc = "idle"
  /\ playerAnt # 0
  /\ heroActs < MaxHeroActs
  /\ heroActs' = heroActs + 1
  /\ \E j \in 1..Len(colonies[1].ants) :
       /\ ~colonies[1].ants[j].isDead
       /\ colonies' = [colonies EXCEPT ![1] =
            SetAnt(@, j, [colonies[1].ants[j] EXCEPT
                            !.health = @ - PLAYER_BITE_DAMAGE])]
  /\ UNCHANGED <<pc, cur, idx, engine, foodPatches, grids, updates,
                 enemyBites, harness>>

\* PlayerController._pickupFood, from the keydown handler: the patch found
\* near the hero gives up one load if it holds any.
HeroPickup ==
  /\ pc = "idle"
  /\ playerAnt # 0
  /\ heroActs < MaxHeroActs
  /\ heroActs' = heroActs + 1
  /\ \E p \in 1..Len(foodPatches) :
       /\ foodPatches[p] > 0
       /\ LET foodTaken == Min(FOOD_CARRY_CAPACITY, foodPatches[p]) IN
          /\ foodPatches' = [foodPatches EXCEPT ![p] = @ - foodTaken]
          /\ colonies' = [colonies EXCEPT ![0].ants =
               [j \in 1..Len(@) |->
                  IF j \in HeroIndex
                  THEN [@[j] EXCEPT !.carryingFood = foodTaken,
                                    !.state = "CARRYING"]
                  ELSE @[j]]]
  /\ UNCHANGED <<pc, cur, idx, engine, grids, updates, enemyBites, harness>>

\* PlayerController._depositFood, from the keydown handler: inside the
\* nest radius the hero's load goes on the ledger of the player colony.
HeroDeposit ==
  /\ pc = "idle"
  /\ playerAnt # 0
  /\ \E j \in HeroIndex :
       /\ colonies[0].ants[j].carryingFood > 0
       /\ colonies' = [colonies EXCEPT
            ![0].foodAmount = @ + colonies[0].ants[j].carryingFood,
            ![0].ants[j] = [@ EXCEPT !.carryingFood = 0,
                                     !.state = "WANDERING"]]
  /\ UNCHANGED <<pc, cur, idx, engine, foodPatches, grids, updates,
                 enemyBites, heroActs, harness>>

Init ==
  /\ pc = "idle"
  /\ cur = 0
  /\ idx = 0
  /\ tick = 0
  /\ speedLevel = 0
  /\ isPaused = FALSE
  /\ gameOver = FALSE
  /\ victoryState = "null"
  /\ playerAnt = 0
  /\ foodPatches = [i \in 1..FOOD_CLUSTERS |-> FOOD_PER_CLUSTER]
  /\ grids = EmptyGrids
  /\ colonies = [c \in {0, 1} |-> NewColony(c)]
  /\ updates = [c \in {0, 1} |-> 0]
  /\ enemyBites = 0
  /\ heroActs = 0
  /\ calls = [deposits |-> 0, outside |-> 0, updates |-> 0]
  /\ base = EmptyGrids
  /\ summed = EmptyGrids
  /\ mover = [x |-> PosScale, y |-> PosScale, angle |-> 0, step |-> "init"]
  /\ loop = [at |-> "frame", accumulator |-> 0, isFPSMode |-> TRUE,
             start |-> 0, ticks |-> 0]

\* updateTick in its steps, with the pause key and the hero's controller.
\* No step of updateTick reads speedLevel: nextSpeed and setSpeedLevel are
\* driven under SpecSpeed and SpecLoop.
Next ==
  \/ UpdateTick
  \/ TickGuard
  \/ WorldUpdate
  \/ AntStep
  \/ QueenStep
  \/ EggStep
  \/ LarvaStep
  \/ PupaStep
  \/ QueenCheck
  \/ TickInc
  \/ TogglePause
  \/ NewPlayerController
  \/ HeroBite
  \/ HeroPickup
  \/ HeroDeposit

Spec == Init /\ [][Next]_vars

\* ---- Colony.update driven directly --------------------------------------
\* playerColony.update(world, enemyColony) called on its own: the colony
\* under test is colony 0, the opponent is never updated.
ColonyUpdate ==
  /\ pc = "idle"
  /\ updates[0] < MaxUpdates
  /\ EnterColony(0)
  /\ UNCHANGED <<engine, foodPatches, grids, colonies, updates,
                 enemyBites, heroActs, harness>>

\* The last loop of Colony.update, returning to the caller of update().
PupaReturn ==
  /\ pc = "pupae"
  /\ colonies' = [colonies EXCEPT ![cur] = Pupae(colonies[cur])]
  /\ updates' = [updates EXCEPT ![cur] = @ + 1]
  /\ pc' = "idle"
  /\ UNCHANGED <<cur, idx, engine, foodPatches, grids,
                 enemyBites, heroActs, harness>>

\* A bite by an opposing ant between two updates of the colony under
\* test (Ant._attackEnemy of the opponent, seen from the bitten ant).
EnemyBite ==
  /\ pc = "idle"
  /\ enemyBites < MaxEnemyBites
  /\ enemyBites' = enemyBites + 1
  /\ \E j \in 1..Len(colonies[0].ants), dmg \in {WORKER_DAMAGE, SOLDIER_DAMAGE} :
       /\ ~colonies[0].ants[j].isDead
       /\ colonies' = [colonies EXCEPT ![0] =
            SetAnt(@, j, Bitten(colonies[0].ants[j], dmg))]
  /\ UNCHANGED <<pc, cur, idx, engine, foodPatches, grids, updates,
                 heroActs, harness>>

NextColony ==
  \/ ColonyUpdate
  \/ AntStep
  \/ QueenStep
  \/ EggStep
  \/ LarvaStep
  \/ PupaReturn
  \/ EnemyBite

SpecColony == Init /\ [][NextColony]_vars

\* ---- PheromoneGrid driven directly --------------------------------------
\* The positions deposit and read are called with: the two opposite
\* corners of the grid, and one position just beyond each of its four
\* edges (-1 is the position -1/PosScale, whose floor is -1).
Positions ==
  { <<0, 0>>, <<WORLD_WIDTH * PosScale - 1, WORLD_HEIGHT * PosScale - 1>>,
    <<-1, 0>>, <<0, -1>>,
    <<WORLD_WIDTH * PosScale, 0>>, <<0, WORLD_HEIGHT * PosScale>> }
\* The strengths deposit is called with: none, the home trail's, and
\* half of, all of and one and a half times the maximum of a cell.
Strengths == {0, PHEROMONE_STRENGTH_HOME, PHEROMONE_MAX \div 2, PHEROMONE_MAX,
              PHEROMONE_MAX + PHEROMONE_MAX \div 2}

\* The position lies on the grid, as a real number: 0 <= x < WORLD_WIDTH
\* and 0 <= y < WORLD_HEIGHT.
OnGrid(x, y) ==
  /\ 0 <= x /\ x < WORLD_WIDTH * PosScale
  /\ 0 <= y /\ y < WORLD_HEIGHT * PosScale

\* The cell a position on the grid lies in.
CellOf(x, y) == <<x \div PosScale, y \div PosScale>>

\* world.depositPheromone(x, y, colonyId, strength) called on its own.
DepositCall ==
  /\ pc = "idle"
  /\ calls.deposits < MaxDeposits
  /\ \E pos \in Positions, colonyId \in Channels, strength \in Strengths :
      LET x == pos[1]
          y == pos[2]
      IN
       /\ grids' = DepositAt(grids, x, y, colonyId, strength)
       /\ calls' = [calls EXCEPT !.deposits = @ + 1,
                                 !.outside = IF OnGrid(x, y) THEN @ ELSE @ + 1]
       /\ summed' = IF OnGrid(x, y)
                    THEN [summed EXCEPT ![colonyId][CellOf(x, y)] = @ + strength]
                    ELSE summed
  /\ UNCHANGED <<pc, cur, idx, engine, foodPatches, colonies, updates,
                 enemyBites, heroActs, base, mover, loop>>

\* PheromoneGrid.update called on its own.
GridUpdate ==
  /\ pc = "idle"
  /\ calls.updates < MaxGridUpdates
  /\ grids' = Decay(grids)
  /\ calls' = [calls EXCEPT !.updates = @ + 1]
  /\ base' = grids'
  /\ summed' = EmptyGrids
  /\ UNCHANGED <<pc, cur, idx, engine, foodPatches, colonies, updates,
                 enemyBites, heroActs, mover, loop>>

NextPheromone ==
  \/ DepositCall
  \/ GridUpdate

SpecPheromone == Init /\ [][NextPheromone]_vars

\* ---- SimulationEngine.updateTick as one step ---------------------------
\* The fields of the SimulationEngine object.
EngineAt(level) ==
  [tick |-> tick, speedLevel |-> level, isPaused |-> isPaused,
   gameOver |-> gameOver, victoryState |-> victoryState]

\* Variant of updateTick that advances the tick counter by the multiplier.
UpdateTickScaled(e, deadA, deadB) ==
  IF e.gameOver \/ e.isPaused THEN e
  ELSE
    LET e1 == IF deadA /\ ~e.gameOver
              THEN [e EXCEPT !.gameOver = TRUE, !.victoryState = "LOST"]
              ELSE e
        e2 == IF deadB /\ ~e1.gameOver
              THEN [e1 EXCEPT !.gameOver = TRUE, !.victoryState = "WON"]
              ELSE e1
    IN [e2 EXCEPT !.tick = @ + SPEED_LEVELS[e.speedLevel + 1]]

\* Variant of updateTick whose guard does not test gameOver.
UpdateTickAfterTheEnd(e, deadA, deadB) ==
  IF e.isPaused THEN e
  ELSE
    LET e1 == IF deadA /\ ~e.gameOver
              THEN [e EXCEPT !.gameOver = TRUE, !.victoryState = "LOST"]
              ELSE e
        e2 == IF deadB /\ ~e1.gameOver
              THEN [e1 EXCEPT !.gameOver = TRUE, !.victoryState = "WON"]
              ELSE e1
    IN [e2 EXCEPT !.tick = @ + 1]

\* updateTick on the engine object e, given what world.update and the two
\* Colony.update calls left of the queens: deadA, deadB are the dead flags
\* of the player's and the enemy's queen at the queen check.
UpdateTickAtOnce(e, deadA, deadB) ==
  IF e.gameOver \/ e.isPaused THEN e
  ELSE
    LET e1 == IF deadA /\ ~e.gameOver
              THEN [e EXCEPT !.gameOver = TRUE, !.victoryState = "LOST"]
              ELSE e
        e2 == IF deadB /\ ~e1.gameOver
              THEN [e1 EXCEPT !.gameOver = TRUE, !.victoryState = "WON"]
              ELSE e1
    IN [e2 EXCEPT !.tick = @ + 1]

\* The colony after an update in which its queen was found dead: the flag
\* is set and the roster pass has spliced her out.
QueenFoundDead(col) ==
  [col EXCEPT !.queen = [@ EXCEPT !.isDead = TRUE, !.health = 0],
              !.ants = SelectSeq(@, LAMBDA a : a.type # "QUEEN")]

\* One whole updateTick call; of world.update and the colony updates only
\* the fate of the two queens is kept.
TickAtOnce ==
  /\ pc = "idle"
  /\ tick < MaxTick
  /\ \E deadA \in {colonies[0].queen.isDead, TRUE},
        deadB \in {colonies[1].queen.isDead, TRUE} :
       LET e == UpdateTickAtOnce(EngineAt(speedLevel), deadA, deadB) IN
       /\ tick' = e.tick
       /\ speedLevel' = e.speedLevel
       /\ isPaused' = e.isPaused
       /\ gameOver' = e.gameOver
       /\ victoryState' = e.victoryState
       /\ colonies' = IF e = EngineAt(speedLevel) THEN colonies
                      ELSE [c \in {0, 1} |->
                             IF (c = 0 /\ deadA) \/ (c = 1 /\ deadB)
                             THEN QueenFoundDead(colonies[c])
                             ELSE colonies[c]]
  /\ UNCHANGED <<pc, cur, idx, playerAnt, foodPatches, grids, updates,
                 enemyBites, heroActs, harness>>

NextSpeedHarness ==
  \/ TickAtOnce
  \/ TogglePause
  \/ NextSpeed
  \/ SetSpeedLevel

SpecSpeed == Init /\ [][NextSpeedHarness]_vars

\* ---- The driving loop of main.js ---------------------------------------
\* this.deltaTime = 1 / CONFIG.TICKS_PER_SECOND, in time units.
deltaTime == TimeScale \div TICKS_PER_SECOND

\* The real time between two frames, in time units: none, one unit, just
\* under and exactly one tick, around the clamp, and a stall of 10 seconds.
Elapsed ==
  {0, 1, deltaTime - 1, deltaTime, (TimeScale * FrameClampMs) \div 1000,
   (TimeScale * FrameClampMs) \div 1000 + 1, 10 * TimeScale}

\* Variant of the frame time that is not clamped.
DeltaUnclamped(deltaMs) == deltaMs

\* const delta = Math.min(deltaMs / 1000, 0.05)
Delta(deltaMs) == Min(deltaMs, (TimeScale * FrameClampMs) \div 1000)

\* The start of a frame: the clamped frame time, times the speed
\* multiplier (1 in FPS mode), goes on the accumulator.
FrameStart ==
  /\ pc = "idle"
  /\ loop.at = "frame"
  /\ \E deltaMs \in Elapsed :
       LET speedMultiplier == IF loop.isFPSMode THEN 1
                              ELSE SPEED_LEVELS[speedLevel + 1]
           acc == loop.accumulator + Delta(deltaMs) * speedMultiplier
       IN loop' = [loop EXCEPT !.at = "while", !.accumulator = acc,
                               !.start = acc, !.ticks = 0]
  /\ UNCHANGED <<pc, cur, idx, engine, foodPatches, grids, colonies, updates,
                 enemyBites, heroActs, calls, base, summed, mover>>

\* One turn of the while loop: updateTick is called and the accumulator
\* gives up one tick duration.  What updateTick does is not followed here.
LoopTick ==
  /\ pc = "idle"
  /\ loop.at = "while"
  /\ loop.accumulator >= deltaTime
  /\ loop' = [loop EXCEPT !.accumulator = @ - deltaTime, !.ticks = @ + 1]
  /\ UNCHANGED <<pc, cur, idx, engine, foodPatches, grids, colonies, updates,
                 enemyBites, heroActs, calls, base, summed, mover>>

\* The while loop ends; the rest of the frame follows.
LoopExit ==
  /\ pc = "idle"
  /\ loop.at = "while"
  /\ ~(loop.accumulator >= deltaTime)
  /\ loop' = [loop EXCEPT !.at = "frame"]
  /\ UNCHANGED <<pc, cur, idx, engine, foodPatches, grids, colonies, updates,
                 enemyBites, heroActs, calls, base, summed, mover>>

\* PlayerController.toggleCameraMode, from the keydown handler.
ToggleCameraMode ==
  /\ pc = "idle"
  /\ loop.at = "frame"
  /\ loop' = [loop EXCEPT !.isFPSMode = ~@]
  /\ UNCHANGED <<pc, cur, idx, engine, foodPatches, grids, colonies, updates,
                 enemyBites, heroActs, calls, base, summed, mover>>

\* The speed key of the keydown handler: nextSpeed, in overhead mode only.
SpeedKey ==
  /\ loop.at = "frame"
  /\ ~loop.isFPSMode
  /\ NextSpeed

NextLoop ==
  \/ FrameStart
  \/ LoopTick
  \/ LoopExit
  \/ ToggleCameraMode
  \/ SpeedKey

SpecLoop == Init /\ [][NextLoop]_vars

\* ---- Ant._move driven directly -----------------------------------------
\* Angles are counted in eighths of a turn, modulo a full turn: _move uses
\* the angle only through its cosine and sine.
Angles == 0..7

\* Math.cos(angle) * spd and Math.sin(angle) * spd in position units; the
\* diagonal component is 0.7 of the speed, rounded down.
Cos8(a) ==
  LET diag == (ANT_SPEED * 7) \div 10 IN
  CASE a = 0 -> ANT_SPEED
    [] a \in {1, 7} -> diag
    [] a \in {2, 6} -> 0
    [] a \in {3, 5} -> -diag
    [] OTHER -> -ANT_SPEED
Sin8(a) == Cos8((a + 6) % 8)

\* Math.PI - angle and -angle.
MirrorX(a) == (12 - a) % 8
MirrorY(a) == (8 - a) % 8

\* Variant of the move that mirrors the angle but does not clamp.
MoveUnclamped(m) ==
  LET nx == m.x + Cos8(m.angle)
      ny == m.y + Sin8(m.angle)
      crossX == nx < PosScale \/ nx >= (WORLD_WIDTH - 1) * PosScale
      crossY == ny < PosScale \/ ny >= (WORLD_HEIGHT - 1) * PosScale
      a1 == IF crossX THEN MirrorX(m.angle) ELSE m.angle
  IN [x |-> nx, y |-> ny, angle |-> IF crossY THEN MirrorY(a1) ELSE a1,
      step |-> IF crossX \/ crossY THEN "bounce" ELSE "move"]

\* Ant._move of an ant that is not player-controlled.
Move(m) ==
  LET nx == m.x + Cos8(m.angle)
      ny == m.y + Sin8(m.angle)
      crossX == nx < PosScale \/ nx >= (WORLD_WIDTH - 1) * PosScale
      crossY == ny < PosScale \/ ny >= (WORLD_HEIGHT - 1) * PosScale
      a1 == IF crossX THEN MirrorX(m.angle) ELSE m.angle
      x1 == IF crossX
            THEN Max(PosScale, Min((WORLD_WIDTH - 2) * PosScale, nx))
            ELSE nx
      a2 == IF crossY THEN MirrorY(a1) ELSE a1
      y1 == IF crossY
            THEN Max(PosScale, Min((WORLD_HEIGHT - 2) * PosScale, ny))
            ELSE ny
  IN [x |-> x1, y |-> y1, angle |-> a2,
      step |-> IF crossX \/ crossY THEN "bounce" ELSE "move"]

\* The turn the state handler of Ant.update gives the ant before _move.
Turn ==
  /\ pc = "idle"
  /\ \E a \in Angles : mover' = [mover EXCEPT !.angle = a, !.step = "turn"]
  /\ UNCHANGED <<pc, cur, idx, engine, foodPatches, grids, colonies, updates,
                 enemyBites, heroActs, calls, base, summed, loop>>

\* this._move() at the end of Ant.update.
MoveStep ==
  /\ pc = "idle"
  /\ mover' = Move(mover)
  /\ UNCHANGED <<pc, cur, idx, engine, foodPatches, grids, colonies, updates,
                 enemyBites, heroActs, calls, base, summed, loop>>

NextMove ==
  \/ Turn
  \/ MoveStep

SpecMove == Init /\ [][NextMove]_vars

\* ---- PheromoneGrid.update with no deposit any more ---------------------
\* The values the deposits left in a cell when they stopped: nothing, one
\* unit, the maximum.
DecayStarts == {0, 1000, PHEROMONE_MAX * 1000}

\* The grid after the last deposit: each channel holds one of the start
\* values in its first cell.
InitDecay ==
  /\ pc = "idle"
  /\ cur = 0
  /\ idx = 0
  /\ tick = 0
  /\ speedLevel = 0
  /\ isPaused = FALSE
  /\ gameOver = FALSE
  /\ victoryState = "null"
  /\ playerAnt = 0
  /\ foodPatches = [i \in 1..FOOD_CLUSTERS |-> FOOD_PER_CLUSTER]
  /\ \E start \in [Channels -> DecayStarts] :
       grids = [ch \in Channels |->
                 [cell \in Cells |-> IF cell = <<0, 0>> THEN start[ch] ELSE 0]]
  /\ colonies = [c \in {0, 1} |-> NewColony(c)]
  /\ updates = [c \in {0, 1} |-> 0]
  /\ enemyBites = 0
  /\ heroActs = 0
  /\ calls = [deposits |-> 0, outside |-> 0, updates |-> 0]
  /\ base = grids
  /\ summed = EmptyGrids
  /\ mover = [x |-> PosScale, y |-> PosScale, angle |-> 0, step |-> "init"]
  /\ loop = [at |-> "frame", accumulator |-> 0, isFPSMode |-> TRUE,
             start |-> 0, ticks |-> 0]

\* PheromoneGrid.update, tick after tick, with no deposit in between.
DecayStep ==
  /\ pc = "idle"
  /\ grids' = Decay(grids)
  /\ UNCHANGED <<pc, cur, idx, engine, foodPatches, colonies, updates,
                 enemyBites, heroActs, harness>>

\* World.update runs the grid's update in every tick of the engine.
SpecDecay == InitDecay /\ [][DecayStep]_vars /\ WF_vars(DecayStep)

\* ======================= SimulationEngine claims ========================

\* The steps of one Colony.update call, in the order of the source.
UpdatePhases == {"ants", "lay", "eggs", "larvae", "pupae"}

\* C1: a call of updateTick made while the engine is paused or the game is
\* over returns at once and leaves the tick counter, the world (pheromone
\* cells, food patches), both colonies, gameOver and victoryState as they
\* were.
C1_SkippedTickChangesNothing ==
  [][ (pc = "updateTick" /\ (isPaused \/ gameOver))
        => /\ pc' = "idle"
           /\ UNCHANGED <<tick, foodPatches, grids, colonies, gameOver,
                          victoryState>> ]_vars

\* C1 witness: a call of updateTick is under way while the engine is
\* paused, after ticks have run.
C1_Witness == pc = "updateTick" /\ isPaused /\ ~gameOver /\ tick > 0

\* C2: a call of updateTick that is not skipped runs the world update,
\* then the update of colony 0 (its bites land on colony 1 only), then the
\* update of colony 1 (its bites land on colony 0 only), then the queen
\* check, and then adds exactly one to the tick counter, also when the
\* check has just set gameOver; the tick counter changes nowhere else.
C2_TickOrder ==
  [][ /\ (pc = "updateTick" /\ ~(isPaused \/ gameOver)) => pc' = "world"
      /\ pc = "world" =>
           /\ updates = [c \in {0, 1} |-> tick]
           /\ cur' = 0 /\ pc' \in {"ants", "lay"}
      /\ pc \in UpdatePhases \ {"pupae"} =>
           /\ cur' = cur /\ pc' \in UpdatePhases
           /\ updates' = updates
      /\ pc = "ants" =>
           \A j \in 1..Len(colonies'[cur].ants) :
             \E k \in 1..Len(colonies[cur].ants) :
               /\ colonies[cur].ants[k].id = colonies'[cur].ants[j].id
               /\ colonies[cur].ants[k].health = colonies'[cur].ants[j].health
      /\ (pc = "pupae" /\ cur = 0) =>
           /\ cur' = 1 /\ pc' \in {"ants", "lay"}
           /\ updates' = [updates EXCEPT ![0] = tick + 1]
      /\ (pc = "pupae" /\ cur = 1) =>
           /\ pc' = "check"
           /\ updates' = [c \in {0, 1} |-> tick + 1]
      /\ pc = "check" => (pc' = "inc" /\ tick' = tick)
      /\ pc = "inc" => (pc' = "idle" /\ tick' = tick + 1)
      /\ tick' # tick => pc = "inc" ]_vars

\* C2 witness: the queen check of a tick has set gameOver and the
\* increment of that tick is about to run.
C2_Witness == pc = "inc" /\ gameOver /\ updates = [c \in {0, 1} |-> tick + 1]

\* C3: gameOver is true exactly when victoryState is set; victoryState
\* becomes LOST only in a queen check that finds the player queen dead, and
\* WON only in a queen check that finds the enemy queen dead while the game
\* was not over before the check and was not lost by the same check.
C3_VictoryMatchesQueens ==
  /\ (gameOver <=> victoryState # "null")
  /\ [][ /\ gameOver' <=> victoryState' # "null"
         /\ (victoryState' = "LOST" /\ victoryState # "LOST") =>
              (pc = "check" /\ colonies[0].queen.isDead)
         /\ (victoryState' = "WON" /\ victoryState # "WON") =>
              /\ pc = "check" /\ colonies[1].queen.isDead
              /\ ~gameOver /\ ~colonies[0].queen.isDead ]_vars

\* C3 witness: the enemy queen died and the game was won.
C3_Witness == gameOver /\ victoryState = "WON" /\ colonies[1].queen.isDead

\* C4: once gameOver is true between calls, no updateTick, togglePause,
\* nextSpeed or setSpeedLevel call changes gameOver, victoryState or the
\* tick counter, and no tick runs again.
C4_GameOverAbsorbing ==
  [][ (gameOver /\ pc \in {"idle", "updateTick"})
        => /\ gameOver' /\ victoryState' = victoryState /\ tick' = tick
           /\ pc' \in {"idle", "updateTick"} ]_vars

\* C4 witness: between two calls the game is over, the pause was toggled
\* after it ended and the speed level was changed.
C4_Witness ==
  gameOver /\ pc = "idle" /\ isPaused /\ speedLevel # 0

\* ============================ Colony claims =============================

\* C5: after every Colony.update call the roster holds at most
\* MAX_ANTS_PER_COLONY ants.
C5_RosterWithinCap ==
  pc = "idle" => Len(colonies[0].ants) <= MAX_ANTS_PER_COLONY

\* The gate of the egg-laying as the claim words it, read before the
\* queen's step: queen alive, timer after its increment at the interval,
\* food at the threshold, roster under the cap.
C6_Gate ==
  /\ ~colonies[cur].queen.isDead
  /\ colonies[cur].eggLayingTimer + 1 >= QUEEN_EGG_LAYING_INTERVAL
  /\ colonies[cur].foodAmount >= QUEEN_MIN_FOOD_TO_LAY
  /\ Len(colonies[cur].ants) < MAX_ANTS_PER_COLONY

\* C6: in an update whose gate is open the queen's step appends exactly one
\* egg of age 0 behind the eggs already queued, takes the egg cost off the
\* food ledger once and resets the timer to 0.  From the starting food and
\* timer, no egg is enqueued before update number QUEEN_EGG_LAYING_INTERVAL,
\* and in that update, with the ledger still at the starting food, the first
\* egg is enqueued and the ledger then reads the starting food less the cost.
C6_LayOnGate ==
  [][ pc = "lay" =>
        LET c  == colonies[cur]
            c2 == colonies'[cur]
        IN /\ C6_Gate =>
                /\ Len(c2.eggQueue) = Len(c.eggQueue) + 1
                /\ \A i \in 1..Len(c.eggQueue) :
                     /\ c2.eggQueue[i].born = c.eggQueue[i].born
                     /\ c2.eggQueue[i].age = c.eggQueue[i].age
                /\ c2.eggQueue[Len(c2.eggQueue)].age = 0
                /\ c2.foodAmount = c.foodAmount - EggCost
                /\ c2.eggLayingTimer = 0
           /\ updates[cur] + 1 < QUEEN_EGG_LAYING_INTERVAL =>
                (c2.eggQueue = <<>> /\ c2.lastLay = 0)
           /\ ( /\ updates[cur] + 1 = QUEEN_EGG_LAYING_INTERVAL
                /\ c.foodAmount = StartingFood
                /\ ~c.queen.isDead
                /\ Len(c.ants) < MAX_ANTS_PER_COLONY ) =>
                /\ Len(c2.eggQueue) = 1
                /\ c2.lastLay = QUEEN_EGG_LAYING_INTERVAL
                /\ c2.foodAmount = StartingFood - EggCost ]_vars

\* C6 witness: the queen's step of update number QUEEN_EGG_LAYING_INTERVAL
\* has just enqueued the first egg, and the ledger reads the starting food
\* less the egg cost.
C6_Witness ==
  /\ pc = "eggs"
  /\ updates[0] + 1 = QUEEN_EGG_LAYING_INTERVAL
  /\ colonies[0].lastLay = QUEEN_EGG_LAYING_INTERVAL
  /\ Len(colonies[0].eggQueue) = 1
  /\ colonies[0].foodAmount = StartingFood - EggCost
  /\ colonies[0].eggLayingTimer = 0

\* C7: two consecutive egg enqueues of a colony are at least
\* QUEEN_EGG_LAYING_INTERVAL update() calls apart, whatever the food ledger
\* holds and however long the gate was closed before.
C7_LayingInterval ==
  [][ \A c \in {0, 1} :
        (colonies'[c].lastLay # colonies[c].lastLay /\ colonies[c].lastLay # 0)
          => colonies'[c].lastLay - colonies[c].lastLay
               >= QUEEN_EGG_LAYING_INTERVAL ]_vars

\* C7 witness: an egg has just been enqueued more than one interval after
\* the egg before it: the gate was closed in between, with the timer
\* running on past the interval.
C7_Witness ==
  /\ pc = "eggs"
  /\ colonies[0].lastLay = updates[0] + 1
  /\ colonies[0].prevLay # 0
  /\ colonies[0].lastLay - colonies[0].prevLay > QUEEN_EGG_LAYING_INTERVAL

\* C8: within one update() call a brood item moves at most one stage: an
\* item that entered the pupa queue in the running call does not leave it
\* in the same call, and no queued item has moved twice.
C8_OneStagePerUpdate ==
  /\ \A i \in 1..Len(colonies[0].larvaQueue) : colonies[0].larvaQueue[i].hops <= 1
  /\ \A i \in 1..Len(colonies[0].pupaQueue) : colonies[0].pupaQueue[i].hops <= 1
  /\ pc = "pupae" =>
       \A i \in 1..Len(colonies[0].pupaQueue) :
         colonies[0].pupaQueue[i].age + 1 >= PUPA_GROWTH_TICKS
           => colonies[0].pupaQueue[i].hops = 0

\* One brood loop from queue q to queue q2 against threshold th: an item
\* (known by the update that laid it) that is gone from the queue had an
\* incremented age of at least th, and an item whose incremented age is
\* th - 1 is still queued with that age.
C9_Loop(q, q2, th) ==
  \A i \in 1..Len(q) :
    /\ (\A k \in 1..Len(q2) : q2[k].born # q[i].born) => q[i].age + 1 >= th
    /\ q[i].age + 1 = th - 1 =>
         \E k \in 1..Len(q2) : q2[k].born = q[i].born /\ q2[k].age = th - 1

\* C9: a brood item leaves its queue in an update only if its age after
\* that update's increment is at least the threshold of the stage; with an
\* incremented age of threshold - 1 it stays.
C9_PromotionAtThreshold ==
  [][ /\ pc = "eggs" =>
           C9_Loop(colonies[cur].eggQueue, colonies'[cur].eggQueue,
                   EGG_INCUBATION_TICKS)
      /\ pc = "larvae" =>
           C9_Loop(colonies[cur].larvaQueue, colonies'[cur].larvaQueue,
                   LARVA_GROWTH_TICKS)
      /\ pc = "pupae" =>
           C9_Loop(colonies[cur].pupaQueue, colonies'[cur].pupaQueue,
                   PUPA_GROWTH_TICKS) ]_vars

\* C9 witness: the egg loop of the running update promoted an item, and the
\* larva loop then left it queued at an age one short of its threshold.
C9_Witness ==
  /\ pc = "pupae"
  /\ \E i \in 1..Len(colonies[0].larvaQueue) :
       /\ colonies[0].larvaQueue[i].hops = 1
       /\ colonies[0].larvaQueue[i].age = LARVA_GROWTH_TICKS - 1

\* C10: a brood item's age goes up by one per update() call, so that
\* between calls it equals the number of calls since the one that laid it
\* (that one included), and the adult appears
\* EGG_INCUBATION_TICKS + LARVA_GROWTH_TICKS + PUPA_GROWTH_TICKS calls after
\* the call that laid the egg.
C10_StageDurations ==
  /\ pc = "idle" =>
       \A i \in 1..Len(colonies[0].larvaQueue) :
         colonies[0].larvaQueue[i].age
           = updates[0] - colonies[0].larvaQueue[i].born + 1
  /\ pc = "pupae" =>
       \A i \in 1..Len(colonies[0].pupaQueue) :
         colonies[0].pupaQueue[i].age + 1 >= PUPA_GROWTH_TICKS
           => (updates[0] + 1) - colonies[0].pupaQueue[i].born
                = EGG_INCUBATION_TICKS + LARVA_GROWTH_TICKS + PUPA_GROWTH_TICKS

\* ============================ Combat claims =============================

\* C11 as stated: at the end of every tick (between two calls of
\* updateTick) every ant whose health is <= 0 has its dead flag set,
\* whichever operation lowered the health.
C11_DeadAtEndOfTick ==
  pc = "idle" =>
    \A c \in {0, 1} : \A j \in 1..Len(colonies[c].ants) :
      colonies[c].ants[j].health <= 0 => colonies[c].ants[j].isDead

\* C11 amended: a bite of an AI ant that lowers the victim's health to <= 0
\* sets the victim's dead flag in the same Ant.update call; the hero's bite
\* only lowers the health, and in every case no ant with health <= 0 is
\* left unflagged when the tick counter advances.
C11_DeadBeforeTickAdvances ==
  [][ /\ pc = "ants" =>
           \A j \in 1..Len(colonies[1 - cur].ants) :
             ( /\ colonies'[1 - cur].ants[j].health
                    < colonies[1 - cur].ants[j].health
               /\ colonies'[1 - cur].ants[j].health <= 0 )
               => colonies'[1 - cur].ants[j].isDead
      /\ tick' # tick =>
           \A c \in {0, 1} : \A j \in 1..Len(colonies[c].ants) :
             colonies[c].ants[j].health <= 0 => colonies[c].ants[j].isDead
    ]_vars

\* C11 witness: the hero's bite took the enemy queen's health to <= 0, and
\* the tick that followed flagged her dead before its increment.
C11_Witness ==
  /\ pc = "inc"
  /\ heroActs > 0
  /\ colonies[1].queen.isDead
  /\ colonies[1].queen.health = QUEEN_HEALTH - PLAYER_BITE_DAMAGE

\* C12: an AI ant bites only if it never bit before or its last bite is at
\* least BITE_COOLDOWN ticks back; an ant up for its update whose cooldown
\* has run out bites the enemy it finds within bite range; a bite takes the
\* attacker's caste damage off the victim's health, and the victim is
\* flagged dead in that step exactly if its health is then <= 0.
C12_BiteCooldown ==
  [][ pc = "ants" =>
        LET a   == colonies[cur].ants[idx]
            now == updates[cur] + 1
            rested == a.lastBite = 0 \/ now - a.lastBite >= BITE_COOLDOWN
            dmg == IF a.type = "SOLDIER" THEN SOLDIER_DAMAGE ELSE WORKER_DAMAGE
        IN /\ \A j \in 1..Len(colonies[1 - cur].ants) :
                colonies'[1 - cur].ants[j].health
                  < colonies[1 - cur].ants[j].health
                => /\ rested
                   /\ colonies'[1 - cur].ants[j].health
                        = colonies[1 - cur].ants[j].health - dmg
                   /\ colonies'[1 - cur].ants[j].isDead
                        <=> colonies'[1 - cur].ants[j].health <= 0
           /\ (rested /\ ~a.isDead /\ a.health > 0) =>
                \A j \in 1..Len(colonies[1 - cur].ants) :
                  AttackEnemy([a EXCEPT !.biteCooldown =
                                 IF @ > 0 THEN @ - 1 ELSE @], j, TRUE).bite = j
    ]_vars

\* C12 witness: the one worker of colony 0 bit the enemy queen twice,
\* BITE_COOLDOWN ticks apart; her health went down by the worker damage
\* each time and she was flagged dead by the second bite.
C12_Witness ==
  /\ heroActs = 0
  /\ colonies[1].queen.isDead
  /\ colonies[1].queen.health = QUEEN_HEALTH - 2 * WORKER_DAMAGE
  /\ colonies[1].queen.health <= 0
  /\ \E j \in 1..Len(colonies[0].ants) :
       /\ colonies[0].ants[j].type = "WORKER"
       /\ colonies[0].ants[j].lastBite = 1 + BITE_COOLDOWN

\* =========================== Pheromone claims ===========================

\* C13: every cell of every channel holds a value from 0 to the maximum
\* (1000), after any sequence of deposits of non-negative strength and of
\* grid updates.
C13_CellInRange ==
  \A ch \in Channels : \A cell \in Cells :
    0 <= grids[ch][cell] /\ grids[ch][cell] <= PHEROMONE_MAX * 1000

\* C13 witness: after deposits and a grid update one cell sits at the
\* maximum and another holds a decayed value strictly inside the range.
C13_Witness ==
  /\ calls.updates > 0
  /\ \E ch \in Channels : \E cell \in Cells :
       grids[ch][cell] = PHEROMONE_MAX * 1000
  /\ \E ch \in Channels : \E cell \in Cells :
       0 < base[ch][cell] /\ base[ch][cell] < PHEROMONE_MAX * 1000

\* C14: after the deposits made into a cell since the last grid update,
\* read of the cell returns the value the update left plus the sum of the
\* strengths, capped at the maximum, however the sum was put together.
C14_DepositsAccumulate ==
  \A pos \in Positions : \A ch \in Channels :
    OnGrid(pos[1], pos[2]) =>
      Read(grids, pos[1], pos[2], ch)
        = Min(PHEROMONE_MAX * 1000,
              base[ch][CellOf(pos[1], pos[2])]
                + summed[ch][CellOf(pos[1], pos[2])] * 1000)

\* C14 witness: two deposits into one cell add up to twice the maximum, and
\* the cell reads the maximum.
C14_Witness ==
  \E pos \in Positions : \E ch \in Channels :
    /\ OnGrid(pos[1], pos[2])
    /\ summed[ch][CellOf(pos[1], pos[2])] = 2 * PHEROMONE_MAX
    /\ Read(grids, pos[1], pos[2], ch) = PHEROMONE_MAX * 1000

\* C15: a grid update raises the value of no cell.
C15_DecayNonIncreasing ==
  [][ calls'.updates # calls.updates =>
        \A pos \in Positions : \A ch \in Channels :
          Read(grids', pos[1], pos[2], ch) <= Read(grids, pos[1], pos[2], ch)
    ]_vars

\* C15 witness: a cell still holds a trail after two grid updates and no
\* deposit into it since the first.
C15_Witness ==
  /\ calls.updates >= 2
  /\ \E ch \in Channels : \E cell \in Cells :
       grids[ch][cell] > 0 /\ summed[ch][cell] = 0

\* C16: with no deposit any more, every cell's value is exactly 0 after
\* finitely many grid updates and is 0 from then on; a cell at 0 is left
\* at 0 by every update.
C16_DecaysToZero ==
  /\ <>[](\A ch \in Channels : \A cell \in Cells : grids[ch][cell] = 0)
  /\ [][\A ch \in Channels : \A cell \in Cells :
          grids[ch][cell] = 0 => grids'[ch][cell] = 0]_vars

\* C16 witness: a trail cell and an alarm cell that both started from the
\* maximum have both come down to 0.
C16_Witness ==
  /\ base[0][<<0, 0>>] = PHEROMONE_MAX * 1000
  /\ base[2][<<0, 0>>] = PHEROMONE_MAX * 1000
  /\ grids[0][<<0, 0>>] = 0
  /\ grids[2][<<0, 0>>] = 0

\* C17: a deposit at a position outside the grid leaves every cell of every
\* channel as it is and a read there returns 0, and neither reaches for a
\* cell the grid does not have: a position that passes the bounds test
\* names a cell of the grid.
C17_OutOfBounds ==
  \A pos \in Positions : \A ch \in Channels :
    /\ ~OnGrid(pos[1], pos[2]) =>
         /\ \A strength \in Strengths :
              DepositAt(grids, pos[1], pos[2], ch, strength) = grids
         /\ Read(grids, pos[1], pos[2], ch) = 0
    /\ InBounds(Floor(pos[1]), Floor(pos[2])) =>
         <<Floor(pos[1]), Floor(pos[2])>> \in DOMAIN grids[ch]

\* C17 witness: deposits were made outside the grid and on it; the trail
\* laid on the grid is there.
C17_Witness ==
  /\ calls.outside > 0
  /\ \E ch \in Channels : \E cell \in Cells : grids[ch][cell] > 0

\* ============================= Food claims ==============================

\* An ant of colony c that carried nothing and was not on its way home
\* is on its way home after the step: it has picked something up.
C18_PickedUp(c) ==
  \E j \in 1..Len(colonies[c].ants) : \E k \in 1..Len(colonies'[c].ants) :
    /\ colonies[c].ants[j].id = colonies'[c].ants[k].id
    /\ colonies[c].ants[j].carryingFood = 0
    /\ colonies[c].ants[j].state # "CARRYING"
    /\ colonies'[c].ants[k].state = "CARRYING"

\* The load an ant of colony c picked up in the step.
C18_Load(c) ==
  { colonies'[c].ants[k].carryingFood : k \in
      { k \in 1..Len(colonies'[c].ants) :
          \E j \in 1..Len(colonies[c].ants) :
            /\ colonies[c].ants[j].id = colonies'[c].ants[k].id
            /\ colonies[c].ants[j].carryingFood = 0
            /\ colonies[c].ants[j].state # "CARRYING"
            /\ colonies'[c].ants[k].state = "CARRYING" } }

\* C18: no food patch ever holds less than 0.  A patch loses food only to
\* a pickup, which takes min(FOOD_CARRY_CAPACITY, amount) from a patch
\* that holds something; every pickup by an ant of either colony or by the
\* hero takes a load of at least 1 from such a patch, so a patch at 0
\* gives nothing, and a patch of N is at 0 after N pickups of capacity 1.
C18_FoodPatches ==
  [][ /\ \A p \in 1..Len(foodPatches) :
           /\ foodPatches'[p] >= 0
           /\ foodPatches'[p] < foodPatches[p] =>
                /\ foodPatches[p] > 0
                /\ foodPatches[p] - foodPatches'[p]
                     = Min(FOOD_CARRY_CAPACITY, foodPatches[p])
      /\ \A c \in {0, 1} :
           C18_PickedUp(c) =>
             \E p \in 1..Len(foodPatches) :
               /\ foodPatches[p] > 0
               /\ foodPatches'[p] < foodPatches[p]
               /\ C18_Load(c) = {foodPatches[p] - foodPatches'[p]}
    ]_vars

\* C18 witness: in the first tick, before any respawn, the patch of
\* FOOD_PER_CLUSTER loads is at 0 and the loads are in the hands of ants
\* of both colonies, the hero's among them.
C18_Witness ==
  /\ tick = 0
  /\ heroActs > 0
  /\ \A p \in 1..Len(foodPatches) : foodPatches[p] = 0
  /\ \E j \in 1..Len(colonies[0].ants) :
       /\ colonies[0].ants[j].isPlayerControlled
       /\ colonies[0].ants[j].carryingFood = FOOD_CARRY_CAPACITY
  /\ \E j \in 1..Len(colonies[1].ants) :
       colonies[1].ants[j].carryingFood = FOOD_CARRY_CAPACITY

\* C20: the food ledger of a colony is never below 0, whatever the ants
\* bring in and the eggs cost: an egg is paid for only from a ledger of
\* at least QUEEN_MIN_FOOD_TO_LAY, so the ledger never falls below that
\* threshold less the cost of one egg.
C20_LedgerNonNegative ==
  \A c \in {0, 1} :
    /\ colonies[c].foodAmount >= 0
    /\ colonies[c].foodAmount
         >= Min(StartingFood, QUEEN_MIN_FOOD_TO_LAY) - EggCost

\* C20 witness: the colony has paid for an egg and an ant has brought a
\* load home.
C20_Witness ==
  /\ colonies[0].lastLay > 0
  /\ colonies[0].foodAmount = StartingFood - EggCost + FOOD_CARRY_CAPACITY

\* ============================ Movement claims ===========================

\* The tentative next position of the mover crosses a bound in x, in y.
C19_CrossX ==
  \/ mover.x + Cos8(mover.angle) < PosScale
  \/ mover.x + Cos8(mover.angle) >= (WORLD_WIDTH - 1) * PosScale
C19_CrossY ==
  \/ mover.y + Sin8(mover.angle) < PosScale
  \/ mover.y + Sin8(mover.angle) >= (WORLD_HEIGHT - 1) * PosScale

\* C19 as stated: after a movement step the position is within
\* 1 <= x <= WORLD_WIDTH - 2 and 1 <= y <= WORLD_HEIGHT - 2.
C19_WithinClampRange ==
  mover.step \in {"move", "bounce"} =>
    /\ PosScale <= mover.x /\ mover.x <= (WORLD_WIDTH - 2) * PosScale
    /\ PosScale <= mover.y /\ mover.y <= (WORLD_HEIGHT - 2) * PosScale

\* C19 amended: after a movement step the position is within
\* 1 <= x < WORLD_WIDTH - 1 and 1 <= y < WORLD_HEIGHT - 1; when the
\* tentative next position is below 1 or at least WORLD_WIDTH - 1 (or
\* WORLD_HEIGHT - 1) the angle is mirrored (pi - angle for x, -angle for
\* y) and the coordinate is clamped to 1 .. WORLD_WIDTH - 2 (or
\* WORLD_HEIGHT - 2); otherwise angle and tentative position are kept.
C19_StaysInsideBorder ==
  [][ mover'.step \in {"move", "bounce"} =>
        /\ PosScale <= mover'.x /\ mover'.x < (WORLD_WIDTH - 1) * PosScale
        /\ PosScale <= mover'.y /\ mover'.y < (WORLD_HEIGHT - 1) * PosScale
        /\ mover'.angle =
             IF C19_CrossX
             THEN IF C19_CrossY THEN MirrorY(MirrorX(mover.angle))
                                ELSE MirrorX(mover.angle)
             ELSE IF C19_CrossY THEN MirrorY(mover.angle) ELSE mover.angle
        /\ IF C19_CrossX
           THEN mover'.x \in {PosScale, (WORLD_WIDTH - 2) * PosScale}
           ELSE mover'.x = mover.x + Cos8(mover.angle)
        /\ IF C19_CrossY
           THEN mover'.y \in {PosScale, (WORLD_HEIGHT - 2) * PosScale}
           ELSE mover'.y = mover.y + Sin8(mover.angle)
    ]_vars

\* C19 witness: the ant has just bounced off the far border in x: it is
\* at WORLD_WIDTH - 2 and heads back.
C19_Witness ==
  /\ mover.step = "bounce"
  /\ mover.x = (WORLD_WIDTH - 2) * PosScale
  /\ mover.angle \in {3, 4, 5}

\* C21: the food ledger of a colony never exceeds the storage cap
\* FOOD_DEPOT_CAPACITY, whatever the ants and the hero bring in.
C21_LedgerWithinCap ==
  \A c \in {0, 1} : colonies[c].foodAmount <= FOOD_DEPOT_CAPACITY

\* ============================ Engine claims =============================

\* C22: the speed level never changes a tick.  updateTick gives the same
\* engine for every speed level, the level itself aside, from the same
\* state and the same outcome of the colony updates; and a step that
\* changes speedLevel (nextSpeed, setSpeedLevel) changes nothing else and
\* leaves it an index into SPEED_LEVELS.
C22_SpeedNeverChangesATick ==
  [][ /\ speedLevel' \in 0..(Len(SPEED_LEVELS) - 1)
      /\ speedLevel' # speedLevel =>
           UNCHANGED <<pc, cur, idx, tick, isPaused, gameOver, victoryState,
                       playerAnt, foodPatches, grids, colonies, updates,
                       enemyBites, heroActs, harness>>
      /\ \A level \in 0..(Len(SPEED_LEVELS) - 1) :
           \A deadA \in BOOLEAN, deadB \in BOOLEAN :
             UpdateTickAtOnce(EngineAt(level), deadA, deadB)
               = [UpdateTickAtOnce(EngineAt(speedLevel), deadA, deadB)
                    EXCEPT !.speedLevel = level]
      /\ tick' # tick => speedLevel' = speedLevel
    ]_vars

\* C22 witness: ticks have run at the highest speed level.
C22_Witness ==
  /\ tick = MaxTick
  /\ speedLevel = Len(SPEED_LEVELS) - 1
  /\ ~gameOver

\* ============================== Ant claims ==============================

\* The ant whose update is the next step of the roster pass, and the
\* possible results of that update.
UpdatedAnt == colonies[cur].ants[idx]
UpdateResults ==
  AntUpdate(UpdatedAnt, colonies[1 - cur], foodPatches, grids, cur)

C24_HeroSkipsAI ==
  [][ /\ (pc = "ants" /\ UpdatedAnt.isPlayerControlled) =>
           /\ \A e \in UpdateResults :
                /\ ~e.move /\ ~e.turn /\ e.enemy = 0
                /\ e.bite = 0 /\ e.pick = 0 /\ e.credit = 0
                /\ e.cell = NoCell
                /\ e.ant = [UpdatedAnt EXCEPT
                              !.biteCooldown = e.ant.biteCooldown,
                              !.isDead = UpdatedAnt.isDead
                                           \/ UpdatedAnt.health <= 0]
                /\ e.ant.biteCooldown \in
                     {UpdatedAnt.biteCooldown, UpdatedAnt.biteCooldown - 1}
           /\ foodPatches' = foodPatches
           /\ grids' = grids
           /\ colonies'[1 - cur] = colonies[1 - cur]
           /\ colonies'[cur].foodAmount = colonies[cur].foodAmount
      /\ (/\ pc = "ants" /\ cur = 1
          /\ ~UpdatedAnt.isDead /\ UpdatedAnt.health > 0
          /\ UpdatedAnt.type # "QUEEN") =>
           \A j \in HeroIndex :
             ~colonies[0].ants[j].isDead =>
               /\ \E e \in UpdateResults : e.enemy = j
               /\ UpdatedAnt.biteCooldown <= 1 =>
                    \E e \in UpdateResults : e.bite = j
    ]_vars

\* C24 witness: the hero picked up food at the player's command, went
\* through an update of its colony still carrying it, and was then bitten
\* dead by an enemy ant.
C24_Witness ==
  \E j \in HeroIndex :
    /\ updates[0] >= 1
    /\ colonies[0].ants[j].isDead
    /\ colonies[0].ants[j].state = "CARRYING"
    /\ colonies[0].ants[j].carryingFood = FOOD_CARRY_CAPACITY

\* The ant whose update is next is a living AI ant that is not a queen.
C25_LivingAI ==
  /\ pc = "ants"
  /\ ~UpdatedAnt.isDead /\ UpdatedAnt.health > 0
  /\ ~UpdatedAnt.isPlayerControlled
  /\ UpdatedAnt.type # "QUEEN"

\* C25: whenever the update of a living AI ant that is not a queen finds
\* a living enemy within the detection radius, the ant is FIGHTING after
\* the update, whatever its state before, and the update runs no forage,
\* return-home or guard step: no pickup, no credit, no pheromone deposit,
\* no _move.  Every living ant of the other roster can be the one found,
\* and an ant that is FIGHTING after the step has left patches, ledger
\* and grids alone.
C25_EnemyFirst ==
  [][ C25_LivingAI =>
        /\ \A e \in UpdateResults :
             e.enemy # 0 =>
               /\ ~colonies[1 - cur].ants[e.enemy].isDead
               /\ e.ant.state = "FIGHTING"
               /\ e.pick = 0 /\ e.credit = 0 /\ e.cell = NoCell
               /\ ~e.move
               /\ e.ant.carryingFood = UpdatedAnt.carryingFood
        /\ \A j \in 1..Len(colonies[1 - cur].ants) :
             ~colonies[1 - cur].ants[j].isDead =>
               \E e \in UpdateResults : e.enemy = j
        /\ colonies'[cur].ants[idx].state = "FIGHTING" =>
             /\ foodPatches' = foodPatches
             /\ grids' = grids
             /\ colonies'[cur].foodAmount = colonies[cur].foodAmount
    ]_vars

\* C25 witness: an ant that was walking home with food has met an enemy:
\* it is FIGHTING, still carrying, and has bitten.
C25_Witness ==
  \E c \in {0, 1} : \E j \in 1..Len(colonies[c].ants) :
    /\ colonies[c].ants[j].state = "FIGHTING"
    /\ colonies[c].ants[j].carryingFood > 0
    /\ colonies[c].ants[j].lastBite > 0
    /\ ~colonies[c].ants[j].isPlayerControlled

\* C30: when the update of a living AI ant in state FIGHTING finds no
\* living enemy, the ant leaves FIGHTING in that update.  If it carries
\* food it goes on as CARRYING: the update is a return-home step (trail
\* deposit, no pickup).  Otherwise it goes on as WANDERING: the update is
\* a forage step (no deposit, no credit).  It is neither FIGHTING nor
\* GUARDING after the update, and an ant that is FIGHTING after its
\* update had a living enemy on the other roster.
C30_LostTargetReverts ==
  [][ C25_LivingAI =>
        /\ UpdatedAnt.state = "FIGHTING" =>
             \A e \in UpdateResults :
               e.enemy = 0 =>
                 /\ e.ant.state \notin {"FIGHTING", "GUARDING"}
                 /\ e.move
                 /\ IF UpdatedAnt.carryingFood > 0
                    THEN /\ e.cell # NoCell /\ e.pick = 0
                         /\ e.ant.state \in {"CARRYING", "WANDERING"}
                         /\ e.ant.state = "WANDERING" <=> e.credit > 0
                    ELSE /\ e.cell = NoCell /\ e.credit = 0
                         /\ e.ant.state \in
                              {"WANDERING", "FOLLOWING", "CARRYING"}
                         /\ e.ant.state = "CARRYING" <=> e.pick # 0
        /\ colonies'[cur].ants[idx].state = "FIGHTING" =>
             \E j \in 1..Len(colonies[1 - cur].ants) :
               ~colonies[1 - cur].ants[j].isDead
    ]_vars

\* C30 witness: an ant bit an enemy while carrying food, and an update
\* later it is on its way home again.
C30_Witness ==
  \E c \in {0, 1} : \E j \in 1..Len(colonies[c].ants) :
    /\ colonies[c].ants[j].lastBite > 0
    /\ updates[c] > colonies[c].ants[j].lastBite
    /\ colonies[c].ants[j].state = "CARRYING"
    /\ colonies[c].ants[j].carryingFood > 0
    /\ ~colonies[c].ants[j].isPlayerControlled

\* ============================ Roster claims =============================

\* C26: when Colony.update returns, no ant on the colony's roster has its
\* dead flag set.
C26_NoDeadAfterUpdate ==
  [][ pc = "pupae" => \A j \in 1..Len(colonies'[cur].ants) :
                        ~colonies'[cur].ants[j].isDead ]_vars

\* C26 witness: the update of the enemy colony has just returned; it has
\* found the queen dead and removed her from the roster.
C26_Witness ==
  /\ pc = "check"
  /\ colonies[1].queen.isDead
  /\ Len(colonies[1].ants) > 0
  /\ \A j \in 1..Len(colonies[1].ants) : colonies[1].ants[j].type # "QUEEN"

\* C27 as stated: within a colony's pass the updates go down the roster
\* from the front: the ant updated next stands later than (or, after a
\* removal, at the place of) the ant just updated.
C27_FrontToBack ==
  [][ (pc = "ants" /\ pc' = "ants") => idx' >= idx ]_vars

\* C27 amended: within one tick the ants of colony A and then of colony B
\* are updated, each roster from its last ant to its first: a pass starts
\* at the end of the roster, every update is followed by that of the ant
\* standing just before, and the pass ends after the first ant.
C27_BackToFront ==
  [][ /\ (pc = "world" /\ pc' = "ants") =>
           cur' = 0 /\ idx' = Len(colonies'[0].ants)
      /\ (pc = "pupae" /\ pc' = "ants") =>
           cur = 0 /\ cur' = 1 /\ idx' = Len(colonies'[1].ants)
      /\ (pc = "ants" /\ pc' = "ants") =>
           cur' = cur /\ idx' = idx - 1 /\ idx' >= 1
      /\ (pc = "ants" /\ pc' # "ants") => idx = 1 /\ pc' = "lay"
    ]_vars

\* C27 witness: in the first pass of the enemy colony the worker, last on
\* the roster, has been updated (it has picked up food) and the queen,
\* first on the roster, is still to come.
C27_Witness ==
  /\ pc = "ants" /\ cur = 1 /\ idx = 1
  /\ updates[1] = 0
  /\ Len(colonies[1].ants) = 2
  /\ colonies[1].ants[1].type = "QUEEN"
  /\ colonies[1].ants[2].state = "CARRYING"

\* C29: if both queens are dead at the queen check of a tick and the game
\* is not over yet, the check sets victoryState to "LOST": the player's
\* queen is looked at first and the look at the enemy's queen leaves the
\* verdict alone.  The verdict stays "LOST" from then on.
C29_BothDeadIsLost ==
  [][ /\ (/\ pc = "check" /\ ~gameOver
          /\ colonies[0].queen.isDead /\ colonies[1].queen.isDead) =>
           gameOver' /\ victoryState' = "LOST"
      /\ victoryState = "LOST" => victoryState' = "LOST"
    ]_vars

\* C29 witness: both queens were found dead in the same tick and the game
\* is lost.
C29_Witness ==
  /\ pc = "inc"
  /\ gameOver /\ victoryState = "LOST"
  /\ colonies[0].queen.isDead /\ colonies[1].queen.isDead

\* ========================== Driving loop claims =========================

\* The most updateTick calls a frame can make: what is left of the
\* accumulator is under one tick, and a frame adds at most the clamp
\* times the highest multiplier.
C28_CatchUpBound ==
  ((deltaTime - 1)
     + ((TimeScale * FrameClampMs) \div 1000) * SPEED_LEVELS[Len(SPEED_LEVELS)])
    \div deltaTime

\* C28: in every frame updateTick is called once per whole tick duration
\* on the accumulator; each call takes one tick duration off it; at the
\* end of the frame the accumulator is in [0, tick duration); and the
\* number of calls of a frame stays within a fixed bound, whatever the
\* real time since the frame before.
C28_FixedTimestep ==
  [][ /\ loop'.ticks = loop.ticks + 1 =>
           /\ loop.accumulator >= deltaTime
           /\ loop'.accumulator = loop.accumulator - deltaTime
      /\ (loop.at = "while" /\ loop'.at = "frame") =>
           /\ loop.ticks = loop.start \div deltaTime
           /\ loop'.accumulator = loop.start - loop.ticks * deltaTime
           /\ 0 <= loop'.accumulator /\ loop'.accumulator < deltaTime
      /\ loop'.ticks <= C28_CatchUpBound
      /\ loop'.at = "frame" =>
           0 <= loop'.accumulator /\ loop'.accumulator < deltaTime
    ]_vars

\* C28 witness: a frame after a stall, at the highest speed, has made as
\* many calls as a frame can make and ends with a rest on the accumulator.
C28_Witness ==
  /\ loop.at = "frame"
  /\ loop.ticks = C28_CatchUpBound
  /\ loop.accumulator > 0
  /\ ~loop.isFPSMode
  /\ speedLevel = Len(SPEED_LEVELS) - 1

\* ============================= Kill claims ==============================

\* The ants of the other roster that the step flags dead, and those whose
\* health the step lowers.
C31_Died ==
  {j \in 1..Len(colonies[1 - cur].ants) :
     colonies'[1 - cur].ants[j].isDead /\ ~colonies[1 - cur].ants[j].isDead}
C31_Hit ==
  {j \in 1..Len(colonies[1 - cur].ants) :
     colonies'[1 - cur].ants[j].health < colonies[1 - cur].ants[j].health}

\* C31: each time the bite of an AI ant lowers its target's health to
\* <= 0, the target is flagged dead and the biter's kill counter goes up
\* by exactly one in that same update.  Over a run the increments of the
\* kill counters add up to the number of ants killed by AI bites: a step
\* of the roster pass flags at most one ant of the other roster dead, only
\* by a bite, and raises the counter of the updated ant by one exactly
\* then; no counter changes in any other way, and an ant flagged dead is
\* not bitten again.
C31_KillsCounted ==
  [][ /\ pc = "ants" =>
           /\ \A j \in C31_Hit :
                /\ ~colonies[1 - cur].ants[j].isDead
                /\ colonies'[1 - cur].ants[j].health <= 0 => j \in C31_Died
           /\ C31_Died \subseteq C31_Hit
           /\ Cardinality(C31_Died) <= 1
           /\ C31_Died # {} =>
                /\ Len(colonies'[cur].ants) = Len(colonies[cur].ants)
                /\ colonies'[cur].ants[idx].entsKilled
                     = UpdatedAnt.entsKilled + 1
           /\ (C31_Died = {} /\ Len(colonies'[cur].ants) = Len(colonies[cur].ants))
                => colonies'[cur].ants[idx].entsKilled = UpdatedAnt.entsKilled
           /\ \A k \in 1..(idx - 1) :
                colonies'[cur].ants[k].entsKilled
                  = colonies[cur].ants[k].entsKilled
           /\ \A k \in (idx + 1)..Len(colonies[cur].ants) :
                \E m \in {k - 1, k} :
                  /\ m \in 1..Len(colonies'[cur].ants)
                  /\ colonies'[cur].ants[m] = colonies[cur].ants[k]
           /\ \A j \in 1..Len(colonies[1 - cur].ants) :
                colonies'[1 - cur].ants[j].entsKilled
                  = colonies[1 - cur].ants[j].entsKilled
      /\ pc # "ants" =>
           \A c \in {0, 1} : \A j \in 1..Len(colonies[c].ants) :
             /\ j <= Len(colonies'[c].ants)
             /\ colonies'[c].ants[j].entsKilled = colonies[c].ants[j].entsKilled
             /\ colonies'[c].ants[j].isDead = colonies[c].ants[j].isDead
    ]_vars

\* C31 witness: a worker bit the enemy queen twice and the second bite
\* killed her: the worker's counter stands at one.
C31_Witness ==
  /\ heroActs = 0
  /\ colonies[1].queen.isDead
  /\ colonies[1].queen.health = QUEEN_HEALTH - 2 * WORKER_DAMAGE
  /\ \E j \in 1..Len(colonies[0].ants) :
       /\ colonies[0].ants[j].type = "WORKER"
       /\ colonies[0].ants[j].lastBite = 1 + BITE_COOLDOWN
       /\ colonies[0].ants[j].entsKilled = 1

\* C32: no bite lands on an ant whose dead flag is set, a target that
\* died earlier in the same roster pass included.  The enemy an update
\* finds is an ant of the other roster that is not flagged dead, a bite
\* goes to the enemy found and to no other, every update has a result
\* also when the other roster holds no living ant, and no step lowers the
\* health of an ant that was already flagged dead.
C32_NoBiteOnTheDead ==
  [][ /\ pc = "ants" =>
           /\ UpdateResults # {}
           /\ \A e \in UpdateResults :
                /\ e.enemy # 0 =>
                     /\ e.enemy \in 1..Len(colonies[1 - cur].ants)
                     /\ ~colonies[1 - cur].ants[e.enemy].isDead
                /\ e.bite # 0 => e.bite = e.enemy
           /\ (\A j \in 1..Len(colonies[1 - cur].ants) :
                 colonies[1 - cur].ants[j].isDead) =>
                \A e \in UpdateResults : e.enemy = 0 /\ e.bite = 0
      /\ \A c \in {0, 1} :
           \A j \in 1..Len(colonies[c].ants) :
             \A k \in 1..Len(colonies'[c].ants) :
               ( /\ colonies'[c].ants[k].id = colonies[c].ants[j].id
                 /\ colonies'[c].ants[k].health < colonies[c].ants[j].health )
                 => ~colonies[c].ants[j].isDead
    ]_vars

\* C32 witness: in one roster pass a worker has just bitten the enemy
\* queen dead, and the next ant up for its update is a living worker of
\* the same colony, with the enemy's worker still alive to be found.
C32_Witness ==
  /\ pc = "ants" /\ cur = 0
  /\ C25_LivingAI
  /\ colonies[1].queen.isDead
  /\ \E j \in 1..Len(colonies[1].ants) :
       colonies[1].ants[j].type = "QUEEN" /\ colonies[1].ants[j].isDead
  /\ \E j \in 1..Len(colonies[1].ants) :
       /\ ~colonies[1].ants[j].isDead
       /\ colonies[1].ants[j].health = WORKER_HEALTH
  /\ \E k \in (idx + 1)..Len(colonies[0].ants) :
       /\ colonies[0].ants[k].lastBite = updates[0] + 1
       /\ colonies[0].ants[k].entsKilled = 1

\* C33: an ant of colony B that an ant of colony A kills during A's
\* update of a tick does nothing in B's update of the same tick.  A bite
\* of A's pass lands before B's update of that tick has run, and the
\* update of an ant that is flagged dead bites nothing, looks for no
\* enemy, does not turn or move, picks up and credits no food and lays no
\* pheromone: the step only takes the ant off its roster.
C33_TheKilledDoNotStrikeBack ==
  [][ /\ (pc = "ants" /\ cur = 0) =>
           \A j \in 1..Len(colonies[1].ants) :
             (colonies'[1].ants[j].isDead /\ ~colonies[1].ants[j].isDead)
               => /\ updates[1] = tick
                  /\ colonies'[1].ants[j].health <= 0
      /\ (pc = "ants" /\ UpdatedAnt.isDead) =>
           /\ \A e \in UpdateResults :
                /\ e.bite = 0 /\ e.enemy = 0 /\ ~e.turn /\ ~e.move
                /\ e.pick = 0 /\ e.credit = 0 /\ e.cell = NoCell
                /\ e.ant = UpdatedAnt
           /\ foodPatches' = foodPatches
           /\ grids' = grids
           /\ colonies'[1 - cur] = colonies[1 - cur]
           /\ [colonies'[cur] EXCEPT !.queen = colonies[cur].queen] =
                [colonies[cur] EXCEPT !.ants = Splice(@, idx)]
           /\ [colonies'[cur].queen EXCEPT !.lastUpdate = 0] =
                [colonies[cur].queen EXCEPT !.lastUpdate = 0]
    ]_vars

\* C33 witness: the worker of colony A has bitten the worker of colony B
\* dead in A's update of the running tick, and the dead worker is up for
\* its update in B's pass of that tick.
C33_Witness ==
  /\ pc = "ants" /\ cur = 1
  /\ heroActs = 0
  /\ updates[1] = tick /\ updates[0] = tick + 1
  /\ UpdatedAnt.isDead
  /\ UpdatedAnt.type = "WORKER"
  /\ \E k \in 1..Len(colonies[0].ants) :
       /\ colonies[0].ants[k].lastBite = updates[0]
       /\ colonies[0].ants[k].entsKilled = 1

\* C34: the update of a living AI ant that finds a living enemy farther
\* away than the bite range moves the ant (toward that enemy) in the same
\* update, so that two opposing ants within the detection radius of each
\* other close in to bite range.
C34_ClosesIn ==
  [][ C25_LivingAI =>
        \A e \in UpdateResults : (e.enemy # 0 /\ e.far) => e.move ]_vars

\* ============================= Stats claims =============================

\* The number of ants on the roster that are not flagged dead.
C35_Living(col) ==
  Cardinality({j \in 1..Len(col.ants) : ~col.ants[j].isDead})

\* C35: at the end of every updateTick call that ran to its end neither
\* roster holds an ant that is flagged dead, so that getStats().totalAnts
\* is the number of living ants of the colony.
C35_NoDeadAtEndOfTick ==
  (pc = "idle" /\ tick > 0) =>
    \A c \in {0, 1} :
      /\ \A j \in 1..Len(colonies[c].ants) : ~colonies[c].ants[j].isDead
      /\ TotalAnts(colonies[c]) = C35_Living(colonies[c])

\* ========================== Roster pass claims ==========================

\* C36: in one Colony.update call the update of every ant that is on the
\* roster when the call starts runs exactly once, whether or not dead
\* ants are removed during the pass, and an adult that comes out of a
\* pupa in that call is not updated before the next call.  The pass
\* starts at the end of the roster as the call found it; the ant whose
\* update runs has not been updated in this call, those before it are
\* still in their places, untouched and not updated, and those behind it
\* have all been updated; the updated ant stays in its place or, dead,
\* is the one ant removed; when the pass ends every ant left on the
\* roster has been updated in this call.  The new adults join behind the
\* roster after the pass, not updated.
C36_EachAntOnce ==
  [][ LET now == updates[cur] + 1
          r   == colonies[cur].ants
          r2  == colonies'[cur].ants
      IN
      /\ (pc # "ants" /\ pc' = "ants") =>
           /\ idx' = Len(colonies'[cur'].ants)
           /\ colonies'[cur'].ants = colonies[cur'].ants
           /\ \A k \in 1..idx' :
                colonies'[cur'].ants[k].lastUpdate < updates'[cur'] + 1
      /\ pc = "ants" =>
           /\ UpdatedAnt.lastUpdate < now
           /\ \A k \in 1..(idx - 1) : r2[k] = r[k] /\ r[k].lastUpdate < now
           /\ \A k \in (idx + 1)..Len(r) : r[k].lastUpdate = now
           /\ \/ /\ Len(r2) = Len(r)
                 /\ r2[idx].id = UpdatedAnt.id
                 /\ r2[idx].lastUpdate = now
                 /\ \A k \in (idx + 1)..Len(r) : r2[k] = r[k]
              \/ /\ Len(r2) = Len(r) - 1
                 /\ UpdatedAnt.isDead \/ UpdatedAnt.health <= 0
                 /\ \A k \in (idx + 1)..Len(r) : r2[k - 1] = r[k]
           /\ idx' = idx - 1
           /\ pc' = "lay" <=> idx = 1
           /\ pc' = "lay" => \A k \in 1..Len(r2) : r2[k].lastUpdate = now
      /\ pc \in {"lay", "eggs", "larvae"} => r2 = r
      /\ pc = "pupae" =>
           /\ Len(r2) >= Len(r)
           /\ \A k \in 1..Len(r) : r2[k] = r[k]
           /\ \A k \in (Len(r) + 1)..Len(r2) :
                /\ r2[k].lastUpdate = 0
                /\ \A m \in 1..Len(r) : r[m].id # r2[k].id
    ]_vars

\* C36 witness: an update of the colony has just returned in which the
\* queen and a worker were updated, the worker that an enemy had bitten
\* dead is gone from the roster, and an adult has come out of a pupa: it
\* stands last on the roster and has not been updated.
C36_Witness ==
  /\ pc = "idle"
  /\ enemyBites > 0
  /\ Len(colonies[0].ants) >= 3
  /\ colonies[0].ants[Len(colonies[0].ants)].lastUpdate = 0
  /\ \A k \in 1..(Len(colonies[0].ants) - 1) :
       colonies[0].ants[k].lastUpdate = updates[0]
  /\ \A k \in 1..Len(colonies[0].ants) :
       colonies[0].ants[k].id # 1 /\ ~colonies[0].ants[k].isDead

\* ============================= Death claims =============================

C38_LoadMatchesState ==
  pc = "idle" =>
    \A c \in {0, 1} : \A j \in 1..Len(colonies[c].ants) :
      LET a == colonies[c].ants[j] IN
      ~a.isPlayerControlled =>
        /\ a.carryingFood \in {0, FOOD_CARRY_CAPACITY}
        /\ a.state = "CARRYING" => a.carryingFood > 0
        /\ a.carryingFood > 0 => a.state \in {"CARRYING", "FIGHTING"}

\* C38 witness: after a tick one AI ant is on its way home with a load,
\* and one that bit an enemy while carrying has lost its target and is
\* on its way home again.
C38_Witness ==
  /\ pc = "idle" /\ tick >= 2
  /\ \E j \in 1..Len(colonies[0].ants) :
       /\ ~colonies[0].ants[j].isPlayerControlled
       /\ colonies[0].ants[j].state = "CARRYING"
       /\ colonies[0].ants[j].carryingFood = FOOD_CARRY_CAPACITY
       /\ colonies[0].ants[j].lastBite = 0
  /\ \E j \in 1..Len(colonies[1].ants) :
       /\ colonies[1].ants[j].state = "CARRYING"
       /\ colonies[1].ants[j].carryingFood = FOOD_CARRY_CAPACITY
       /\ colonies[1].ants[j].lastBite > 0
       /\ colonies[1].ants[j].lastBite < updates[1]

\* The loads the ants of colony c carry after the step that they did not
\* carry before it, and the food the patches lose in the step.
C39_Loaded(c) ==
  { <<j, k>> \in (1..Len(colonies[c].ants)) \X (1..Len(colonies'[c].ants)) :
      /\ colonies'[c].ants[k].id = colonies[c].ants[j].id
      /\ colonies'[c].ants[k].carryingFood > colonies[c].ants[j].carryingFood }
C39_Emptied(c) ==
  { <<j, k>> \in (1..Len(colonies[c].ants)) \X (1..Len(colonies'[c].ants)) :
      /\ colonies'[c].ants[k].id = colonies[c].ants[j].id
      /\ colonies[c].ants[j].carryingFood > 0
      /\ colonies'[c].ants[k].carryingFood = 0 }

\* C39: no food comes into being between patch and ledger.  A ledger
\* goes up in a step only by the load of one ant of its colony, and that
\* ant carries nothing after the step; the load of an ant goes up in a
\* step only to what one patch gives up in that step, one ant at a time;
\* and an ant new on a roster carries nothing.  So what the ledgers have
\* been credited never exceeds what the patches have given up.
C39_NoFoodFromNowhere ==
  [][ \A c \in {0, 1} :
        /\ colonies'[c].foodAmount > colonies[c].foodAmount =>
             /\ Cardinality(C39_Emptied(c)) = 1
             /\ \A m \in C39_Emptied(c) :
                  colonies'[c].foodAmount - colonies[c].foodAmount
                    = colonies[c].ants[m[1]].carryingFood
             /\ C39_Loaded(c) = {}
        /\ C39_Loaded(c) # {} =>
             /\ Cardinality(C39_Loaded(c)) = 1
             /\ C39_Loaded(1 - c) = {}
             /\ \A m \in C39_Loaded(c) :
                  \E p \in 1..Len(foodPatches) :
                    /\ foodPatches[p] - foodPatches'[p]
                         = colonies'[c].ants[m[2]].carryingFood
                    /\ \A q \in 1..Len(foodPatches) :
                         q # p => foodPatches'[q] = foodPatches[q]
        /\ \A k \in 1..Len(colonies'[c].ants) :
             (\A j \in 1..Len(colonies[c].ants) :
                colonies[c].ants[j].id # colonies'[c].ants[k].id)
               => colonies'[c].ants[k].carryingFood = 0
    ]_vars

\* C39 witness: the hero and the worker have each brought one load from
\* the patches to the ledger of the player colony, which has paid for no
\* egg.
C39_Witness ==
  /\ heroActs > 0
  /\ colonies[0].lastLay = 0
  /\ colonies[0].foodAmount = StartingFood + 2 * FOOD_CARRY_CAPACITY
  /\ \A j \in 1..Len(colonies[0].ants) : colonies[0].ants[j].carryingFood = 0

\* ============================= Pause claims =============================

\* C40: while the engine is paused or the game is over no step changes a
\* food patch, a pheromone cell, a food ledger or an ant, the steps of
\* the hero's controller (bite, pickup, deposit) included.  The
\* construction of the controller, which puts the hero on the roster
\* before the first frame, is left aside.
C40_FrozenWhilePaused ==
  [][ ((isPaused \/ gameOver) /\ playerAnt # 0)
        => UNCHANGED <<foodPatches, grids, colonies>> ]_vars

====
